---- MODULE Spec2Model ----
(***************************************************************************)
(* Verification model of the indexing core of cerc-io/ponder:             *)
(*   - the cross-network event aggregator (per-network checkpoints, the    *)
(*     global checkpoint and finality checkpoint, the events it emits);    *)
(*   - the cursor-paginated log event query and the remote aggregator's    *)
(*     getEvents loop over it;                                             *)
(*   - the handler pipeline driven by the aggregator's events.             *)
(***************************************************************************)
EXTENDS Integers, Sequences, FiniteSets, TLC

VARIABLES
    networkCheckpoints,          \* GqlEventAggregatorService.networkCheckpoints
    checkpoint,                  \* GqlEventAggregatorService.checkpoint
    finalityCheckpoint,          \* GqlEventAggregatorService.finalityCheckpoint
    historicalSyncCompletedAt,   \* GqlEventAggregatorService.historicalSyncCompletedAt
    newCheckpointEvents,         \* timestamps of the newCheckpoint events emitted, in order
    newFinalityCheckpointEvents, \* timestamps of the newFinalityCheckpoint events emitted
    reorgEvents,                 \* number of reorg events emitted
    listeners,                   \* TRUE when the pipeline's listeners are registered on the aggregator
    pendingEmits,                \* emitted events whose listeners have not been invoked yet
    eventStoreLogs,              \* the logs held by the event store (joined with block and transaction)
    getEventsCall,               \* the running getEvents generator of an aggregator, if any
    rawPages,                    \* the event lists returned to that generator by getLogEvents, in order
    yieldedPages,                \* the pages that generator has yielded, in order
    toTimestamp,                 \* handler pipeline: watermark through which events have been applied
    pipelineState,               \* handler pipeline: "Idle", "Processing" or "Reorging"
    stream,                      \* handler pipeline: the getEvents stream of the run in progress
    handled,                     \* events whose handler was invoked and not reverted since, in order
    reorgTarget,                 \* commonAncestorTimestamp of the rollback in progress
    resumePending,               \* the reorg listener has yet to call processEvents
    reorgsDelivered,             \* the reorgs delivered since events were last streamed, each with
                                 \* the watermark it found
    overtaken,                   \* a handler ran for an event past an emitted, not yet delivered reorg
    gqlDefinition,               \* which definition of GqlEventAggregatorService is built: "first" or "second"
    internalAggregator,          \* the in-process aggregator: its checkpoints and the events it emitted
    canonical,                   \* realtime sync: hash of the head of the node's canonical chain
    unfinalizedBlocks,           \* realtime sync: the in-memory list of unfinalized blocks
    storeBlocks,                 \* realtime sync: the blocks (with transactions and logs) in the store
    newHeadNumber,               \* realtime sync: newHead.number of the tick in progress, 0 between ticks
    stepOps,                     \* realtime sync: store calls and emissions of the last step, in order
    shallowReorgsEmitted,        \* realtime sync: shallowReorg emissions whose listener has not run yet
    lastFinalityCheckpoint,      \* realtime sync: timestamp of the last finalityCheckpoint emitted, 0 if none
    reportedFinalNumber,         \* realtime sync: greatest block number reported final, 0 if none
    fatal,                       \* realtime sync: a fatal error was raised
    logBlocks,                   \* historical sync: numbers of the chain's blocks that hold a matching log
    providerLimit,               \* historical sync: most blocks the provider answers eth_getLogs for
    filterMaxBlockRange,         \* historical sync: the filter's configured maxBlockRange
    running,                     \* historical sync: the process is up and set up
    restarts,                    \* historical sync: number of times the process has stopped
    historicalLogs,              \* store: block numbers whose matching logs are stored
    historicalBlocks,            \* store: block numbers whose block and transactions are stored
    cachedRanges,                \* store: the filter's CachedRange rows
    logTasks,                    \* historical sync: queued LogTasks
    blockTasks,                  \* historical sync: queued BlockTasks
    rangeCommitTasks,            \* historical sync: scheduled RangeCommitTasks
    effectiveMaxBlockRange,      \* historical sync: the filter's effective maxBlockRange
    lastSplit,                   \* historical sync: the last rejected LogTask and its replacement
    startingRangeEndTimestamp,   \* historical sync: what the last merge returned
    historicalCheckpoint,        \* historical sync: the last historicalCheckpoint emitted
    syncCompleteEmitted,         \* historical sync: syncComplete was emitted
    syncCompletePending,         \* historical sync: syncComplete emitted, listener not yet run
    eventStore,                  \* event store: the blocks, transactions, logs and cached ranges of every network
    ingested,                    \* event store: per network, the forks of the realtime blocks ingested, by height
    lastDelete,                  \* event store: the arguments of the last deleteRealtimeData call, if any
    entityRows,                  \* derived store: the versioned entity rows
    liveAt,                      \* derived store: per timestamp, the entities the handled events left
    hasUserError,                \* UserErrorService.hasUserError: a handler threw and no reset happened since
    lastRun,                     \* handler pipeline: outcome of the last processEvents, handleReorg or reset
    revertedRows,                \* derived store: the rows the last rollback deleted
    appConfig,                   \* Ponder: options.mode and what the resolved config holds
    appPhase,                    \* Ponder: how far construction, start and kill have come
    serviceCalls,                \* Ponder: the calls made on the services, in order
    completed,                   \* networks whose historical sync has emitted syncComplete
    lastSyncEvent,               \* the last sync event a listener handled, and the service it went to
    aggregatorEmitted,           \* newCheckpoint / reorg emitted by the aggregator, listener not yet run
    pipelineCalls,               \* the methods of the handler service that listeners have called
    isHistoricalIndexingComplete, \* ServerService.isHistoricalIndexingComplete (server.isHealthy)
    lastEventsProcessed,         \* toTimestamp of the last eventsProcessed event, if any
    paidRPCMethods,              \* PaidRPCProvider.paidRPCMethods (network.payments.paidRPCMethods)
    paymentChannelId,            \* PaymentService: networkPayments.paymentChannelId of the network
    paymentsSent,                \* PaymentService: payments sent on the channel so far
    rpcEffects,                  \* paid transport: payments and HTTP requests of the last request, in order
    rpcOutcome,                  \* paid transport: the last request and what it returned or threw
    indexerProvider,             \* remote-indexer transport: which definition of IndexerGQLProvider is built
    providerEffects,             \* remote-indexer transport: log lines, GraphQL queries and HTTP requests of the last request
    providerOutcome,             \* remote-indexer transport: the last request and how it resolved or rejected
    networkConfig,               \* buildNetwork: the network of the resolved config it is given
    resolvedNetwork,             \* buildNetwork: the Network it returned, if it was called
    resolverStore,               \* getEthBlock: numbers of the blocks held by the event store
    upstreamHead,                \* getEthBlock: number of the upstream node's latest block
    realtimeHead,                \* getEthBlock: realtimeSyncService.headBlock.number, if any
    resolverEffects,             \* getEthBlock: store lookups and upstream requests of the last query
    resolverOutcome,             \* getEthBlock: the last query and what it returned
    indexerNetworkCheckpoints,   \* IndexingServerService.networkCheckpoints
    indexerIsSyncComplete,       \* IndexingServerService.isSyncComplete
    serverIsHealthy,             \* Server.isHealthy of the indexing server
    published,                   \* the events the indexing server published on its PubSub, in order
    ponderConfig,                \* new Ponder: the networks and the log filters of the config
    networkSyncServices          \* Ponder.networkSyncServices

aggVars == <<networkCheckpoints, checkpoint, finalityCheckpoint,
             historicalSyncCompletedAt, newCheckpointEvents,
             newFinalityCheckpointEvents, reorgEvents, listeners, pendingEmits>>

pageVars == <<eventStoreLogs, getEventsCall, rawPages, yieldedPages>>

pipeVars == <<toTimestamp, pipelineState, stream, handled, reorgTarget,
              resumePending, reorgsDelivered, overtaken>>

variantVars == <<gqlDefinition, internalAggregator>>

\* the state of the components that the aggregator, the pagination and the
\* pipeline specifications leave alone
realtimeVars == <<canonical, unfinalizedBlocks, storeBlocks, newHeadNumber, stepOps,
                  shallowReorgsEmitted, lastFinalityCheckpoint, reportedFinalNumber, fatal>>

historicalVars == <<logBlocks, providerLimit, filterMaxBlockRange, running, restarts,
                    historicalLogs, historicalBlocks, cachedRanges, logTasks, blockTasks,
                    rangeCommitTasks, effectiveMaxBlockRange, lastSplit,
                    startingRangeEndTimestamp, historicalCheckpoint, syncCompleteEmitted,
                    syncCompletePending>>

storeVars == <<eventStore, ingested, lastDelete>>

derivedVars == <<entityRows, liveAt, hasUserError, lastRun, revertedRows>>

appVars == <<appConfig, appPhase, serviceCalls, completed, lastSyncEvent,
             aggregatorEmitted, pipelineCalls, isHistoricalIndexingComplete,
             lastEventsProcessed>>

rpcVars == <<paidRPCMethods, paymentChannelId, paymentsSent, rpcEffects, rpcOutcome>>

providerVars == <<indexerProvider, providerEffects, providerOutcome>>

networkVars == <<networkConfig, resolvedNetwork>>

resolverVars == <<resolverStore, upstreamHead, realtimeHead, resolverEffects, resolverOutcome>>

serverVars == <<indexerNetworkCheckpoints, indexerIsSyncComplete, serverIsHealthy, published>>

filterVars == <<ponderConfig, networkSyncServices>>

lastVars == <<providerVars, networkVars, resolverVars, serverVars, filterVars>>

otherVars == <<storeVars, derivedVars, appVars, rpcVars, lastVars>>

laterVars == <<variantVars, realtimeVars, historicalVars, otherVars>>

vars == <<aggVars, pageVars, pipeVars, laterVars>>

----------------------------------------------------------------------------
(* Bounds of the model *)

\* number of registered networks; chainIds are 1..NumNetworks
NumNetworks == 2
\* timestamps reported to the aggregator range over 0..MaxTimestamp
MaxTimestamp == 2
\* timestamps reported as finality checkpoints range over 0..MaxFinalityTimestamp
MaxFinalityTimestamp == 4
\* reorg events emitted by the aggregator in one run of the model
MaxReorgs == 2

\* emitted events that may wait for their listeners at one time
MaxPending == 2

\* realtime sync: greatest block number the node's chain reaches
MaxHeight == 4

\* realtime sync: finalityBlockCount of the network
finalityBlockCount == 1

\* historical sync: the latest finalized block number, end of the required range
MaxBlock == 3

\* historical sync: how often the process stops and is set up again
MaxRestarts == 1

\* PAGE_SIZE of the indexing server's getLogEvents resolver (10_000 in
\* resolvers.ts:22), scaled down so that full, partial and empty pages occur
PAGE_SIZE == 2

ChainIds == 1..NumNetworks
Timestamps == 0..MaxTimestamp
FinalityTimestamps == 0..MaxFinalityTimestamp

----------------------------------------------------------------------------
(* Helpers: Math.max / Math.min *)

Min2(a, b) == IF a <= b THEN a ELSE b

Max2(a, b) == IF a >= b THEN a ELSE b

MathMin(S) == CHOOSE x \in S : \A y \in S : x <= y

MathMax(S) == CHOOSE x \in S : \A y \in S : x >= y

\* the value of an optional number that has not been assigned
Undefined == -1

----------------------------------------------------------------------------
(* Event aggregator: gql-service.ts *)

\* constructor: every network starts at 0 / false
InitialNetworkCheckpoint ==
    [isHistoricalSyncComplete |-> FALSE,
     historicalCheckpoint |-> 0,
     realtimeCheckpoint |-> 0,
     finalityCheckpoint |-> 0]

\* the mapped value of recalculateCheckpoint: how far one network has events
NetworkCheckpoint_IgnoresSyncFlag(n) ==
    Max2(n.historicalCheckpoint, n.realtimeCheckpoint)

NetworkCheckpoint(n) ==
    IF n.isHistoricalSyncComplete
    THEN Max2(n.historicalCheckpoint, n.realtimeCheckpoint)
    ELSE n.historicalCheckpoint

\* Math.min(...checkpoints) over all registered networks
MinNetworkCheckpoint(nc) == MathMin({NetworkCheckpoint(nc[c]) : c \in DOMAIN nc})

\* Math.min(...finalityCheckpoint) over all registered networks
MinFinalityCheckpoint(nc) == MathMin({nc[c].finalityCheckpoint : c \in DOMAIN nc})

\* Emittery.emit of an event that has a listener in Ponder.registerServiceDependencies:
\* the listener is invoked asynchronously, in emission order
Emit(q, event) == IF listeners THEN Append(q, event) ELSE q

NewCheckpointEvent(t) == [name |-> "newCheckpoint", timestamp |-> t]

ReorgEvent(t) == [name |-> "reorg", timestamp |-> t]

\* recalculateCheckpoint, run on the updated per-network record nc
recalculateCheckpoint_Unguarded(nc) ==
    LET newCheckpoint == MinNetworkCheckpoint(nc) IN
    IF newCheckpoint # checkpoint
    THEN /\ checkpoint' = newCheckpoint
         /\ newCheckpointEvents' = Append(newCheckpointEvents, newCheckpoint)
         /\ pendingEmits' = Emit(pendingEmits, NewCheckpointEvent(newCheckpoint))
    ELSE UNCHANGED <<checkpoint, newCheckpointEvents, pendingEmits>>

recalculateCheckpoint_EmitsOnEqual(nc) ==
    LET newCheckpoint == MinNetworkCheckpoint(nc) IN
    IF newCheckpoint >= checkpoint
    THEN /\ checkpoint' = newCheckpoint
         /\ newCheckpointEvents' = Append(newCheckpointEvents, newCheckpoint)
         /\ pendingEmits' = Emit(pendingEmits, NewCheckpointEvent(newCheckpoint))
    ELSE UNCHANGED <<checkpoint, newCheckpointEvents, pendingEmits>>

recalculateCheckpoint(nc) ==
    LET newCheckpoint == MinNetworkCheckpoint(nc) IN
    IF newCheckpoint > checkpoint
    THEN /\ checkpoint' = newCheckpoint
         /\ newCheckpointEvents' = Append(newCheckpointEvents, newCheckpoint)
         /\ pendingEmits' = Emit(pendingEmits, NewCheckpointEvent(newCheckpoint))
    ELSE UNCHANGED <<checkpoint, newCheckpointEvents, pendingEmits>>

\* recalculateFinalityCheckpoint, run on the updated per-network record nc
recalculateFinalityCheckpoint_Unguarded(nc) ==
    LET newFinalityCheckpoint == MinFinalityCheckpoint(nc) IN
    IF newFinalityCheckpoint # finalityCheckpoint
    THEN /\ finalityCheckpoint' = newFinalityCheckpoint
         /\ newFinalityCheckpointEvents' =
                Append(newFinalityCheckpointEvents, newFinalityCheckpoint)
    ELSE UNCHANGED <<finalityCheckpoint, newFinalityCheckpointEvents>>

recalculateFinalityCheckpoint(nc) ==
    LET newFinalityCheckpoint == MinFinalityCheckpoint(nc) IN
    IF newFinalityCheckpoint > finalityCheckpoint
    THEN /\ finalityCheckpoint' = newFinalityCheckpoint
         /\ newFinalityCheckpointEvents' =
                Append(newFinalityCheckpointEvents, newFinalityCheckpoint)
    ELSE UNCHANGED <<finalityCheckpoint, newFinalityCheckpointEvents>>

handleNewHistoricalCheckpoint(chainId, timestamp) ==
    LET nc == [networkCheckpoints EXCEPT ![chainId].historicalCheckpoint = timestamp] IN
    /\ networkCheckpoints' = nc
    /\ recalculateCheckpoint(nc)
    /\ UNCHANGED <<finalityCheckpoint, historicalSyncCompletedAt,
                   newFinalityCheckpointEvents, reorgEvents, listeners>>

handleHistoricalSyncComplete(chainId) ==
    LET nc == [networkCheckpoints EXCEPT ![chainId].isHistoricalSyncComplete = TRUE] IN
    /\ networkCheckpoints' = nc
    /\ recalculateCheckpoint(nc)
    /\ historicalSyncCompletedAt' =
          IF \A c \in DOMAIN nc : nc[c].isHistoricalSyncComplete
          THEN MathMax({nc[c].historicalCheckpoint : c \in DOMAIN nc})
          ELSE historicalSyncCompletedAt
    /\ UNCHANGED <<finalityCheckpoint, newFinalityCheckpointEvents, reorgEvents,
                   listeners>>

handleNewRealtimeCheckpoint(chainId, timestamp) ==
    LET nc == [networkCheckpoints EXCEPT ![chainId].realtimeCheckpoint = timestamp] IN
    /\ networkCheckpoints' = nc
    /\ recalculateCheckpoint(nc)
    /\ UNCHANGED <<finalityCheckpoint, historicalSyncCompletedAt,
                   newFinalityCheckpointEvents, reorgEvents, listeners>>

handleNewFinalityCheckpoint(chainId, timestamp) ==
    LET nc == [networkCheckpoints EXCEPT ![chainId].finalityCheckpoint = timestamp] IN
    /\ networkCheckpoints' = nc
    /\ recalculateFinalityCheckpoint(nc)
    /\ UNCHANGED <<checkpoint, historicalSyncCompletedAt, newCheckpointEvents,
                   reorgEvents, listeners, pendingEmits>>

handleReorg(commonAncestorTimestamp) ==
    /\ reorgEvents < MaxReorgs
    /\ reorgEvents' = reorgEvents + 1
    /\ pendingEmits' = Emit(pendingEmits, ReorgEvent(commonAncestorTimestamp))
    /\ UNCHANGED <<networkCheckpoints, checkpoint, finalityCheckpoint,
                   historicalSyncCompletedAt, newCheckpointEvents,
                   newFinalityCheckpointEvents, listeners>>

InitAggregator ==
    /\ networkCheckpoints = [c \in ChainIds |-> InitialNetworkCheckpoint]
    /\ checkpoint = 0
    /\ finalityCheckpoint = 0
    /\ historicalSyncCompletedAt = Undefined
    /\ newCheckpointEvents = <<>>
    /\ newFinalityCheckpointEvents = <<>>
    /\ reorgEvents = 0
    /\ pendingEmits = <<>>

----------------------------------------------------------------------------
(* Event store: the logs and the paginated getLogEvents iterator.          *)
(* The store's implementations are modelled from the event iteration       *)
(* contract; the resolver and the aggregators' getEvents are the code.     *)

\* width in bytes of the big-endian byte strings that hold timestamps and
\* block numbers in the store
BlobWidth == 32

RECURSIVE BigEndianBytes(_, _)
BigEndianBytes(n, width) ==
    IF width = 0 THEN <<>>
    ELSE Append(BigEndianBytes(n \div 256, width - 1), n % 256)

\* utils/decode blobToBigInt, then Number(...)
RECURSIVE blobToBigInt(_)
blobToBigInt(blob) ==
    IF blob = <<>> THEN 0
    ELSE blobToBigInt(SubSeq(blob, 1, Len(blob) - 1)) * 256 + blob[Len(blob)]

\* byte-wise comparison of two byte strings of equal length
BlobLess(a, b) ==
    LET differing == { i \in 1..Len(a) : a[i] # b[i] }
    IN /\ differing # {}
       /\ LET first == CHOOSE i \in differing : \A j \in differing : i <= j
          IN a[first] < b[first]

\* the absent cursor (undefined / null)
NoCursor == [isNull |-> TRUE]

\* The logs that can be in the store, each joined with its block: position
\* (timestamp, chainId, blockNumber, logIndex), the name of the log filter it
\* matches, its topic0 and whether its data decodes against the ABI item.
LogUniverse ==
    { [timestamp |-> 1, chainId |-> 1, blockNumber |-> 1, logIndex |-> 0,
       logFilterName |-> "F", selector |-> "0xa", decodes |-> TRUE],
      [timestamp |-> 1, chainId |-> 1, blockNumber |-> 1, logIndex |-> 1,
       logFilterName |-> "F", selector |-> "0xa", decodes |-> FALSE],
      [timestamp |-> 1, chainId |-> 2, blockNumber |-> 3, logIndex |-> 0,
       logFilterName |-> "F", selector |-> "0xa", decodes |-> TRUE],
      [timestamp |-> 2, chainId |-> 1, blockNumber |-> 255, logIndex |-> 1,
       logFilterName |-> "F", selector |-> "0xb", decodes |-> TRUE],
      [timestamp |-> 2, chainId |-> 1, blockNumber |-> 256, logIndex |-> 0,
       logFilterName |-> "F", selector |-> "0xa", decodes |-> TRUE] }

\* the selectors a handler can be registered for
Selectors == {"0xa", "0xb"}

\* the numbers that are encoded: timestamps and block numbers
EncodedNumbers == 0..MathMax(Timestamps \cup { e.blockNumber : e \in LogUniverse })

\* the encoding of each of them, computed once
BlobTable == [n \in EncodedNumbers |-> BigEndianBytes(n, BlobWidth)]

\* utils/encode intToBlob: a number as a fixed-width big-endian byte string
intToBlob(n) == BlobTable[n]

\* the store's cursor of a row: timestamp and blockNumber are byte strings
RowCursor(e) ==
    [timestamp |-> intToBlob(e.timestamp), chainId |-> e.chainId,
     blockNumber |-> intToBlob(e.blockNumber), logIndex |-> e.logIndex]

\* ORDER BY timestamp, chainId, blockNumber, logIndex on the store's columns
StoreCursorLess(a, b) ==
    \/ BlobLess(a.timestamp, b.timestamp)
    \/ /\ a.timestamp = b.timestamp
       /\ \/ a.chainId < b.chainId
          \/ /\ a.chainId = b.chainId
             /\ \/ BlobLess(a.blockNumber, b.blockNumber)
                \/ /\ a.blockNumber = b.blockNumber
                   /\ a.logIndex < b.logIndex

\* the rows of S in the store's order, cursorOf[e] being the cursor of row e
RECURSIVE OrderedBy(_, _)
OrderedBy(S, cursorOf) ==
    IF S = {} THEN <<>>
    ELSE LET first == CHOOSE e \in S :
                         \A o \in S \ {e} : ~StoreCursorLess(cursorOf[o], cursorOf[e])
         IN <<first>> \o OrderedBy(S \ {first}, cursorOf)

OrderedRows(S) == OrderedBy(S, [e \in S |-> RowCursor(e)])

\* the rows a query selects: block timestamp in [fromTimestamp, toTimestamp]
\* and, with a cursor, strictly after it (the cursor is an exclusive lower bound)
SelectedRows(logs, from, to, cursor) ==
    { e \in logs :
        /\ from <= e.timestamp
        /\ e.timestamp <= to
        /\ cursor # NoCursor => StoreCursorLess(cursor, RowCursor(e)) }

\* One page of EventStore.getLogEvents: at most pageSize rows in order. A page
\* filled to pageSize is truncated: its cursor is the position of its last row
\* and it ends at that row's timestamp; any other page ends at to.
StorePage(logs, from, to, cursor, pageSize) ==
    LET rows == OrderedRows(SelectedRows(logs, from, to, cursor))
        events == SubSeq(rows, 1, IF Len(rows) < pageSize THEN Len(rows) ELSE pageSize)
        truncated == Len(events) = pageSize
    IN [events |-> events,
        metadata |->
          [pageEndsAtTimestamp |->
               IF truncated THEN events[Len(events)].timestamp ELSE to,
           cursor |->
               IF truncated THEN RowCursor(events[Len(events)]) ELSE NoCursor]]

\* resolvers.ts getLogEvents: the cursor argument converted for the store
ResolverCursorArg(cursor) ==
    IF cursor = NoCursor THEN NoCursor
    ELSE [cursor EXCEPT !.timestamp = intToBlob(cursor.timestamp),
                        !.blockNumber = intToBlob(cursor.blockNumber)]

\* resolvers.ts getLogEvents: the page's cursor converted for the response
ResolverCursorResult_LowByteOnly(cursor) ==
    IF cursor = NoCursor THEN NoCursor
    ELSE [cursor EXCEPT !.timestamp = blobToBigInt(cursor.timestamp) % 256,
                        !.blockNumber = blobToBigInt(cursor.blockNumber) % 256]

ResolverCursorResult(cursor) ==
    IF cursor = NoCursor THEN NoCursor
    ELSE [cursor EXCEPT !.timestamp = blobToBigInt(cursor.timestamp),
                        !.blockNumber = blobToBigInt(cursor.blockNumber)]

\* resolvers.ts getLogEvents: isLastPage of a page of n events
IsLastPage_WhenFull(n) == n <= PAGE_SIZE

IsLastPage(n) == n < PAGE_SIZE

\* resolvers.ts getLogEvents: the first page of a fresh iterator
ResolverGetLogEvents(logs, from, to, cursor) ==
    LET page == StorePage(logs, from, to,
                          ResolverCursorArg(cursor), PAGE_SIZE)
    IN [events |-> page.events,
        metadata |->
          [pageEndsAtTimestamp |-> page.metadata.pageEndsAtTimestamp,
           cursor |-> ResolverCursorResult(page.metadata.cursor),
           isLastPage |-> IsLastPage(Len(page.events))]]

\* a decoded LogEvent
LogEvent(e) == [logFilterName |-> e.logFilterName, eventName |-> e.selector, log |-> e]

\* gql-service.ts getEvents, the events.reduce: throws when a log's selector has
\* no metadata in includeLogFilterEvents, skips a log that fails to decode
RECURSIVE GqlDecodeReduce(_, _)
GqlDecodeReduce(events, bySelector) ==
    IF events = <<>> THEN [threw |-> FALSE, events |-> <<>>]
    ELSE LET acc == GqlDecodeReduce(SubSeq(events, 1, Len(events) - 1), bySelector)
             event == events[Len(events)]
         IN IF acc.threw \/ event.selector \notin bySelector
            THEN [threw |-> TRUE, events |-> <<>>]
            ELSE IF event.decodes
                 THEN [threw |-> FALSE, events |-> Append(acc.events, LogEvent(event))]
                 ELSE acc

\* EventAggregatorService.decodeEvents of the in-process aggregator: a log that
\* cannot be decoded is logged and skipped
RECURSIVE decodeEvents(_, _)
decodeEvents(events, bySelector) ==
    IF events = <<>> THEN <<>>
    ELSE LET acc == decodeEvents(SubSeq(events, 1, Len(events) - 1), bySelector)
             event == events[Len(events)]
         IN IF event.selector \in bySelector /\ event.decodes
            THEN Append(acc, LogEvent(event))
            ELSE acc

IdleCall ==
    [pc |-> "idle", variant |-> "none", fromTimestamp |-> 0, toTimestamp |-> 0,
     bySelector |-> {}, cursor |-> NoCursor]

\* a consumer calls getEvents of the remote (GraphQL) aggregator
GqlGetEventsStart(from, to, bySelector) ==
    /\ getEventsCall.pc = "idle"
    /\ getEventsCall' =
          [pc |-> "running", variant |-> "remote", fromTimestamp |-> from,
           toTimestamp |-> to, bySelector |-> bySelector, cursor |-> NoCursor]
    /\ UNCHANGED <<eventStoreLogs, rawPages, yieldedPages>>

\* gql-service.ts getEvents: the cursor kept for the next query
GqlNextCursor(oldCursor, metadata) == metadata.cursor

\* gql-service.ts getEvents: one iteration of the while (true) loop
GqlGetEventsIteration ==
    /\ getEventsCall.pc = "running"
    /\ getEventsCall.variant = "remote"
    /\ LET response == ResolverGetLogEvents(eventStoreLogs, getEventsCall.fromTimestamp,
                                            getEventsCall.toTimestamp, getEventsCall.cursor)
           decoded == GqlDecodeReduce(response.events, getEventsCall.bySelector)
       IN /\ rawPages' = Append(rawPages, response.events)
          /\ IF decoded.threw
             THEN /\ yieldedPages' = yieldedPages
                  /\ getEventsCall' =
                        [getEventsCall EXCEPT
                           !.pc = "thrown",
                           !.cursor = GqlNextCursor(getEventsCall.cursor, response.metadata)]
             ELSE /\ yieldedPages' =
                        Append(yieldedPages,
                               [events |-> decoded.events, metadata |-> response.metadata])
                  /\ getEventsCall' =
                        [getEventsCall EXCEPT
                           !.pc = IF response.metadata.isLastPage THEN "done" ELSE "running",
                           !.cursor = GqlNextCursor(getEventsCall.cursor, response.metadata)]
    /\ UNCHANGED eventStoreLogs

\* a consumer calls getEvents of the in-process aggregator
InternalGetEventsStart(from, to, bySelector) ==
    /\ getEventsCall.pc = "idle"
    /\ getEventsCall' =
          [pc |-> "running", variant |-> "internal", fromTimestamp |-> from,
           toTimestamp |-> to, bySelector |-> bySelector, cursor |-> NoCursor]
    /\ UNCHANGED <<eventStoreLogs, rawPages, yieldedPages>>

\* internal-service.ts getEvents: one iteration of the for await loop over the
\* store's iterator, which ends after the first page that is not truncated
InternalGetEventsIteration ==
    /\ getEventsCall.pc = "running"
    /\ getEventsCall.variant = "internal"
    /\ LET page == StorePage(eventStoreLogs, getEventsCall.fromTimestamp,
                             getEventsCall.toTimestamp, getEventsCall.cursor, PAGE_SIZE)
       IN /\ rawPages' = Append(rawPages, page.events)
          /\ yieldedPages' =
                Append(yieldedPages,
                       [events |-> decodeEvents(page.events, getEventsCall.bySelector),
                        metadata |-> page.metadata])
          /\ getEventsCall' =
                [getEventsCall EXCEPT
                   !.pc = IF page.metadata.cursor = NoCursor THEN "done" ELSE "running",
                   !.cursor = page.metadata.cursor]
    /\ UNCHANGED eventStoreLogs

InitPagesIdle ==
    /\ eventStoreLogs = {}
    /\ getEventsCall = IdleCall
    /\ rawPages = <<>>
    /\ yieldedPages = <<>>

----------------------------------------------------------------------------
(* Handler pipeline. The listeners are those Ponder registers on the       *)
(* aggregator; the event handler service behind them follows the handler   *)
(* pipeline's contract: processEvents streams and applies the events up to *)
(* the checkpoint page by page, handleReorg halts it and rolls back.       *)

NoStream == [open |-> FALSE]

\* every event of the log filters has a registered handler
RegisteredSelectors == Selectors

\* processEvents is called: an idle pipeline starts a run; a busy one picks
\* the new checkpoint up when it re-reads aggregator.checkpoint
processEvents ==
    pipelineState' = IF pipelineState = "Idle" THEN "Processing" ELSE pipelineState

\* Ponder.ts: eventAggregatorService.on("newCheckpoint", ...), invoked for the
\* oldest emitted event
ListenerNewCheckpoint ==
    /\ pendingEmits # <<>>
    /\ Head(pendingEmits).name = "newCheckpoint"
    /\ pendingEmits' = Tail(pendingEmits)
    /\ processEvents
    /\ UNCHANGED <<toTimestamp, stream, handled, reorgTarget, resumePending,
                   reorgsDelivered, overtaken>>

\* handleReorg of the pipeline, first part: halt in-flight processing
PipelineHandleReorg(commonAncestorTimestamp) ==
    /\ pipelineState # "Reorging"
    /\ pipelineState' = "Reorging"
    /\ stream' = NoStream
    /\ reorgTarget' = commonAncestorTimestamp

\* Ponder.ts: eventAggregatorService.on("reorg", ...) that goes straight to
\* processEvents
ListenerReorg_SkipsHandleReorg ==
    /\ pendingEmits # <<>>
    /\ Head(pendingEmits).name = "reorg"
    /\ pendingEmits' = Tail(pendingEmits)
    /\ reorgsDelivered' =
          Append(reorgsDelivered, [timestamp |-> Head(pendingEmits).timestamp,
                                   watermark |-> toTimestamp])
    /\ processEvents
    /\ UNCHANGED <<toTimestamp, stream, handled, reorgTarget, resumePending, overtaken>>

\* Ponder.ts: eventAggregatorService.on("reorg", ...), invoked for the oldest
\* emitted event: await handleReorg({commonAncestorTimestamp})
ListenerReorg ==
    /\ pendingEmits # <<>>
    /\ Head(pendingEmits).name = "reorg"
    /\ pendingEmits' = Tail(pendingEmits)
    /\ reorgsDelivered' =
          Append(reorgsDelivered, [timestamp |-> Head(pendingEmits).timestamp,
                                   watermark |-> toTimestamp])
    /\ PipelineHandleReorg(Head(pendingEmits).timestamp)
    /\ UNCHANGED <<toTimestamp, handled, resumePending, overtaken>>

\* the events that stay applied when the derived store is reverted to t
RECURSIVE RevertedTo(_, _)
RevertedTo(events, t) ==
    IF events = <<>> THEN <<>>
    ELSE LET rest == RevertedTo(SubSeq(events, 1, Len(events) - 1), t)
             event == events[Len(events)]
         IN IF event.timestamp > t THEN rest ELSE Append(rest, event)

\* handleReorg of the pipeline, second part: revert the derived store,
\* toTimestamp <- commonAncestorTimestamp, rollback complete
RollbackComplete ==
    /\ pipelineState = "Reorging"
    /\ handled' = RevertedTo(handled, reorgTarget)
    /\ toTimestamp' = reorgTarget
    /\ pipelineState' = "Idle"
    /\ resumePending' = TRUE
    /\ UNCHANGED <<stream, reorgTarget, reorgsDelivered, overtaken>>

\* Ponder.ts reorg listener, after handleReorg: await processEvents()
ListenerReorgResume ==
    /\ resumePending
    /\ pipelineState # "Reorging"
    /\ resumePending' = FALSE
    /\ processEvents
    /\ UNCHANGED <<toTimestamp, stream, handled, reorgTarget, reorgsDelivered, overtaken>>

\* processEvents, while toTimestamp < aggregator.checkpoint: stream the events
\* of [toTimestamp + 1, aggregator.checkpoint]
StartStream ==
    /\ pipelineState = "Processing"
    /\ ~stream.open
    /\ toTimestamp < checkpoint
    /\ stream' = [open |-> TRUE, fromTimestamp |-> toTimestamp + 1,
                  toTimestamp |-> checkpoint, cursor |-> NoCursor]
    /\ reorgsDelivered' = <<>>
    /\ UNCHANGED <<toTimestamp, pipelineState, handled, reorgTarget, resumePending,
                   overtaken>>

\* the logs of the decoded events of a page
RECURSIVE LogsOf(_)
LogsOf(events) ==
    IF events = <<>> THEN <<>>
    ELSE Append(LogsOf(SubSeq(events, 1, Len(events) - 1)), events[Len(events)].log)

\* processEvents: the next page of the stream; the handler of each of its
\* events is invoked in page order, then the page is committed at
\* toTimestamp = pageEndsAtTimestamp
ProcessPage ==
    /\ pipelineState = "Processing"
    /\ stream.open
    /\ LET response == ResolverGetLogEvents(eventStoreLogs, stream.fromTimestamp,
                                            stream.toTimestamp, stream.cursor)
           events == LogsOf(GqlDecodeReduce(response.events, RegisteredSelectors).events)
       IN /\ handled' = handled \o events
          /\ toTimestamp' = response.metadata.pageEndsAtTimestamp
          /\ stream' = IF response.metadata.isLastPage THEN NoStream
                       ELSE [stream EXCEPT
                               !.cursor = GqlNextCursor(stream.cursor, response.metadata)]
          /\ overtaken' =
                (overtaken \/
                   \E i \in 1..Len(pendingEmits) : \E k \in 1..Len(events) :
                      /\ pendingEmits[i].name = "reorg"
                      /\ events[k].timestamp > pendingEmits[i].timestamp)
    /\ UNCHANGED <<pipelineState, reorgTarget, resumePending, reorgsDelivered>>

\* processEvents: toTimestamp has reached aggregator.checkpoint, the run
\* ends (eventsProcessed{toTimestamp} is emitted)
Drain ==
    /\ pipelineState = "Processing"
    /\ ~stream.open
    /\ toTimestamp >= checkpoint
    /\ pipelineState' = "Idle"
    /\ UNCHANGED <<toTimestamp, stream, handled, reorgTarget, resumePending,
                   reorgsDelivered, overtaken>>

InitPipelineIdle ==
    /\ toTimestamp = 0
    /\ pipelineState = "Idle"
    /\ stream = NoStream
    /\ handled = <<>>
    /\ reorgTarget = 0
    /\ resumePending = FALSE
    /\ reorgsDelivered = <<>>
    /\ overtaken = FALSE

----------------------------------------------------------------------------
(* The two aggregators side by side. The file gql-service.ts holds two      *)
(* definitions of GqlEventAggregatorService; which of them is built is not  *)
(* decided by the source, so either may be. The in-process aggregator's     *)
(* handlers (EventAggregatorService) follow the event aggregator's contract.*)

GqlDefinitions == {"first", "second"}

\* gql-service.ts, second definition: handleNewHistoricalCheckpoint = () => {}
handleNewHistoricalCheckpoint_Second(chainId, timestamp) == UNCHANGED aggVars

\* gql-service.ts, second definition: handleHistoricalSyncComplete = () => {}
handleHistoricalSyncComplete_Second(chainId) == UNCHANGED aggVars

\* gql-service.ts, second definition: handleNewRealtimeCheckpoint = () => {}
handleNewRealtimeCheckpoint_Second(chainId, timestamp) == UNCHANGED aggVars

\* gql-service.ts, second definition: handleNewFinalityCheckpoint = () => {}
handleNewFinalityCheckpoint_Second(chainId, timestamp) == UNCHANGED aggVars

\* gql-service.ts, second definition: handleReorg emits "reorg"
handleReorg_Second(commonAncestorTimestamp) == handleReorg(commonAncestorTimestamp)

InitialInternalAggregator ==
    [networkCheckpoints |-> [c \in ChainIds |-> InitialNetworkCheckpoint],
     checkpoint |-> 0,
     finalityCheckpoint |-> 0,
     emitted |-> <<>>,
     newFinalityCheckpointEvents |-> <<>>]

\* in-process aggregator, recompute checkpoint on the updated record nc:
\* per_net = isHistoricalSyncComplete ? max(historical, realtime) : historical;
\* new_global = min(per_net); if new_global > checkpoint: assign and emit
InternalRecompute(agg, nc) ==
    LET perNet == [c \in ChainIds |->
                     IF nc[c].isHistoricalSyncComplete
                     THEN Max2(nc[c].historicalCheckpoint, nc[c].realtimeCheckpoint)
                     ELSE nc[c].historicalCheckpoint]
        newGlobal == MathMin({perNet[c] : c \in ChainIds})
    IN IF newGlobal > agg.checkpoint
       THEN [agg EXCEPT !.networkCheckpoints = nc,
                        !.checkpoint = newGlobal,
                        !.emitted = Append(@, NewCheckpointEvent(newGlobal))]
       ELSE [agg EXCEPT !.networkCheckpoints = nc]

\* in-process aggregator, recompute finalityCheckpoint (min of per-network finality)
InternalRecomputeFinality(agg, nc) ==
    LET newGlobal == MathMin({nc[c].finalityCheckpoint : c \in ChainIds})
    IN IF newGlobal > agg.finalityCheckpoint
       THEN [agg EXCEPT !.networkCheckpoints = nc,
                        !.finalityCheckpoint = newGlobal,
                        !.newFinalityCheckpointEvents = Append(@, newGlobal)]
       ELSE [agg EXCEPT !.networkCheckpoints = nc]

InternalHandleNewHistoricalCheckpoint(agg, chainId, timestamp) ==
    InternalRecompute(agg, [agg.networkCheckpoints EXCEPT
                              ![chainId].historicalCheckpoint = timestamp])

InternalHandleHistoricalSyncComplete(agg, chainId) ==
    InternalRecompute(agg, [agg.networkCheckpoints EXCEPT
                              ![chainId].isHistoricalSyncComplete = TRUE])

InternalHandleNewRealtimeCheckpoint(agg, chainId, timestamp) ==
    InternalRecompute(agg, [agg.networkCheckpoints EXCEPT
                              ![chainId].realtimeCheckpoint = timestamp])

InternalHandleNewFinalityCheckpoint(agg, chainId, timestamp) ==
    InternalRecomputeFinality(agg, [agg.networkCheckpoints EXCEPT
                                      ![chainId].finalityCheckpoint = timestamp])

InternalHandleReorg(agg, commonAncestorTimestamp) ==
    [agg EXCEPT !.emitted = Append(@, ReorgEvent(commonAncestorTimestamp))]

\* one call made on both aggregators
BothHandleNewHistoricalCheckpoint(chainId, timestamp) ==
    /\ internalAggregator' =
          InternalHandleNewHistoricalCheckpoint(internalAggregator, chainId, timestamp)
    /\ IF gqlDefinition = "first"
       THEN handleNewHistoricalCheckpoint(chainId, timestamp)
       ELSE handleNewHistoricalCheckpoint_Second(chainId, timestamp)
    /\ UNCHANGED gqlDefinition

BothHandleHistoricalSyncComplete(chainId) ==
    /\ internalAggregator' =
          InternalHandleHistoricalSyncComplete(internalAggregator, chainId)
    /\ IF gqlDefinition = "first"
       THEN handleHistoricalSyncComplete(chainId)
       ELSE handleHistoricalSyncComplete_Second(chainId)
    /\ UNCHANGED gqlDefinition

BothHandleNewRealtimeCheckpoint(chainId, timestamp) ==
    /\ internalAggregator' =
          InternalHandleNewRealtimeCheckpoint(internalAggregator, chainId, timestamp)
    /\ IF gqlDefinition = "first"
       THEN handleNewRealtimeCheckpoint(chainId, timestamp)
       ELSE handleNewRealtimeCheckpoint_Second(chainId, timestamp)
    /\ UNCHANGED gqlDefinition

BothHandleNewFinalityCheckpoint(chainId, timestamp) ==
    /\ internalAggregator' =
          InternalHandleNewFinalityCheckpoint(internalAggregator, chainId, timestamp)
    /\ IF gqlDefinition = "first"
       THEN handleNewFinalityCheckpoint(chainId, timestamp)
       ELSE handleNewFinalityCheckpoint_Second(chainId, timestamp)
    /\ UNCHANGED gqlDefinition

BothHandleReorg(commonAncestorTimestamp) ==
    /\ internalAggregator' = InternalHandleReorg(internalAggregator, commonAncestorTimestamp)
    /\ IF gqlDefinition = "first"
       THEN handleReorg(commonAncestorTimestamp)
       ELSE handleReorg_Second(commonAncestorTimestamp)
    /\ UNCHANGED gqlDefinition

InitVariantsIdle ==
    /\ gqlDefinition = "first"
    /\ internalAggregator = InitialInternalAggregator


----------------------------------------------------------------------------
(* Realtime sync of one network. A block's hash is the path of fork choices *)
(* from genesis, so its number is the length of the path and its parent is  *)
(* the path without its last choice; timestamps grow along every chain and  *)
(* differ between the forks.                                                *)

Forks == {"a", "b"}

Hashes == UNION {[1..n -> Forks] : n \in 1..MaxHeight}

ParentHash(h) == SubSeq(h, 1, Len(h) - 1)

Block(h) ==
    [hash |-> h,
     number |-> Len(h),
     parentHash |-> ParentHash(h),
     timestamp |-> 2 * Len(h) + (IF h[Len(h)] = "b" THEN 1 ELSE 0)]

\* eth_blockNumber
EthBlockNumber == Len(canonical)

\* eth_getBlockByNumber(n) on the node's canonical chain
EthGetBlockByNumber(n) == Block(SubSeq(canonical, 1, n))

\* eth_getBlockByHash(h)
EthGetBlockByHash(h) == Block(h)

LastBlock(blocks) == blocks[Len(blocks)]

\* deleteRealtimeData(chainId, fromBlockNumber): deletes blocks, transactions
\* and logs with blockNumber >= fromBlockNumber
deleteRealtimeData(blocks, fromBlockNumber) ==
    {b \in blocks : b.number < fromBlockNumber}

\* insertRealtimeBlock(chainId, block, transactions, logs): upsert
insertRealtimeBlock(blocks, block) == blocks \cup {block}

DeleteOp(n) == [op |-> "deleteRealtimeData", fromBlockNumber |-> n]

ShallowReorgOp(t) == [op |-> "shallowReorg", commonAncestorTimestamp |-> t]

InsertOp(b) == [op |-> "insertRealtimeBlock", block |-> b]

RealtimeCheckpointOp(t) == [op |-> "realtimeCheckpoint", timestamp |-> t]

FinalityCheckpointOp(t) == [op |-> "finalityCheckpoint", timestamp |-> t]

\* the store after the calls among ops, made in their order
RECURSIVE ApplyStoreOps(_, _)
ApplyStoreOps(blocks, ops) ==
    IF ops = <<>> THEN blocks
    ELSE LET o == Head(ops)
             next == IF o.op = "deleteRealtimeData"
                     THEN deleteRealtimeData(blocks, o.fromBlockNumber)
                     ELSE IF o.op = "insertRealtimeBlock"
                     THEN insertRealtimeBlock(blocks, o.block)
                     ELSE blocks
         IN ApplyStoreOps(next, Tail(ops))

\* walk back from hash h along parentHash until an entry of unfinalizedBlocks
\* has that hash: its index, or 0 when the walk passes below the list
RECURSIVE CommonAncestorIndex_FirstEntry(_, _)
CommonAncestorIndex_FirstEntry(blocks, h) ==
    IF \E i \in 1..Len(blocks) : blocks[i].hash = h
    THEN CHOOSE i \in 1..Len(blocks) : blocks[i].hash = h
    ELSE IF Len(h) <= blocks[1].number
    THEN 1
    ELSE CommonAncestorIndex_FirstEntry(blocks, ParentHash(h))

RECURSIVE CommonAncestorIndex(_, _)
CommonAncestorIndex(blocks, h) ==
    IF \E i \in 1..Len(blocks) : blocks[i].hash = h
    THEN CHOOSE i \in 1..Len(blocks) : blocks[i].hash = h
    ELSE IF Len(h) <= blocks[1].number
    THEN 0
    ELSE CommonAncestorIndex(blocks, ParentHash(h))

\* the blocks of the chain ending in b with number from..b.number, ascending
ChainTo_OnlyNewBlock(b, from) == <<b>>

ChainTo(b, from) ==
    [k \in 1..(b.number - from + 1) |-> EthGetBlockByHash(SubSeq(b.hash, 1, from + k - 1))]

\* store calls and emissions for the appended blocks: per block
\* insertRealtimeBlock, then realtimeCheckpoint
RECURSIVE AppendOps(_)
AppendOps(chain) ==
    IF chain = <<>> THEN <<>>
    ELSE <<InsertOp(Head(chain)), RealtimeCheckpointOp(Head(chain).timestamp)>>
         \o AppendOps(Tail(chain))

\* reorg recovery with common ancestor a for the new block b: delete, emit,
\* then append the new canonical chain
ReorgRecoveryOps(a, b) ==
    <<DeleteOp(a.number + 1), ShallowReorgOp(a.timestamp)>>
    \o AppendOps(ChainTo(b, a.number + 1))

\* the node mines a block on its canonical chain
NewBlockMined ==
    /\ Len(canonical) < MaxHeight
    /\ \E f \in Forks : canonical' = Append(canonical, f)
    /\ UNCHANGED <<unfinalizedBlocks, storeBlocks, newHeadNumber, stepOps,
                   shallowReorgsEmitted, lastFinalityCheckpoint, reportedFinalNumber, fatal>>

\* the node switches to another chain, at least as long as the one it leaves
ChainReorganized ==
    /\ \E h \in Hashes :
          /\ Len(h) >= Len(canonical)
          /\ SubSeq(h, 1, Len(canonical)) # canonical
          /\ canonical' = h
    /\ UNCHANGED <<unfinalizedBlocks, storeBlocks, newHeadNumber, stepOps,
                   shallowReorgsEmitted, lastFinalityCheckpoint, reportedFinalNumber, fatal>>

\* tick, step 1: fetch newHead; no-op if newHead.number <= tail.number
TickFetchNewHead ==
    /\ ~fatal
    /\ newHeadNumber = 0
    /\ IF EthBlockNumber <= LastBlock(unfinalizedBlocks).number
       THEN UNCHANGED realtimeVars
       ELSE /\ newHeadNumber' = EthBlockNumber
            /\ stepOps' = <<>>
            /\ UNCHANGED <<canonical, unfinalizedBlocks, storeBlocks, shallowReorgsEmitted,
                           lastFinalityCheckpoint, reportedFinalNumber, fatal>>

\* tick, steps 2 and 3 for the next block number
TickProcessBlock ==
    /\ ~fatal
    /\ newHeadNumber > 0
    /\ LastBlock(unfinalizedBlocks).number < newHeadNumber
    /\ LET b == EthGetBlockByNumber(LastBlock(unfinalizedBlocks).number + 1)
           i == CommonAncestorIndex(unfinalizedBlocks, b.parentHash)
       IN IF b.parentHash = LastBlock(unfinalizedBlocks).hash
          THEN /\ unfinalizedBlocks' = Append(unfinalizedBlocks, b)
               /\ stepOps' = AppendOps(<<b>>)
               /\ storeBlocks' = ApplyStoreOps(storeBlocks, AppendOps(<<b>>))
               /\ UNCHANGED <<newHeadNumber, shallowReorgsEmitted, fatal>>
          ELSE IF i = 0
          THEN /\ fatal' = TRUE
               /\ newHeadNumber' = 0
               /\ stepOps' = <<>>
               /\ UNCHANGED <<unfinalizedBlocks, storeBlocks, shallowReorgsEmitted>>
          ELSE LET a == unfinalizedBlocks[i]
                   ops == ReorgRecoveryOps(a, b)
               IN /\ unfinalizedBlocks' =
                        SubSeq(unfinalizedBlocks, 1, i) \o ChainTo(b, a.number + 1)
                  /\ stepOps' = ops
                  /\ storeBlocks' = ApplyStoreOps(storeBlocks, ops)
                  /\ shallowReorgsEmitted' = Append(shallowReorgsEmitted, a.timestamp)
                  /\ UNCHANGED <<newHeadNumber, fatal>>
    /\ UNCHANGED <<canonical, lastFinalityCheckpoint, reportedFinalNumber>>

\* tick, step 4: report and drop the finalized entries
TickFinalize_KeepsFinalized ==
    /\ ~fatal
    /\ newHeadNumber > 0
    /\ LastBlock(unfinalizedBlocks).number >= newHeadNumber
    /\ LET isFinal(b) == b.number <= newHeadNumber - finalityBlockCount
           finalized == SelectSeq(unfinalizedBlocks, isFinal)
       IN IF finalized = <<>>
          THEN /\ stepOps' = <<>>
               /\ UNCHANGED <<lastFinalityCheckpoint, reportedFinalNumber>>
          ELSE /\ stepOps' = <<FinalityCheckpointOp(LastBlock(finalized).timestamp)>>
               /\ lastFinalityCheckpoint' = LastBlock(finalized).timestamp
               /\ reportedFinalNumber' = LastBlock(finalized).number
    /\ newHeadNumber' = 0
    /\ UNCHANGED <<canonical, unfinalizedBlocks, storeBlocks, shallowReorgsEmitted, fatal>>

TickFinalize ==
    /\ ~fatal
    /\ newHeadNumber > 0
    /\ LastBlock(unfinalizedBlocks).number >= newHeadNumber
    /\ LET isFinal(b) == b.number <= newHeadNumber - finalityBlockCount
           finalized == SelectSeq(unfinalizedBlocks, isFinal)
           notFinal(b) == ~isFinal(b)
       IN IF finalized = <<>>
          THEN /\ stepOps' = <<>>
               /\ UNCHANGED <<unfinalizedBlocks, lastFinalityCheckpoint, reportedFinalNumber>>
          ELSE /\ stepOps' = <<FinalityCheckpointOp(LastBlock(finalized).timestamp)>>
               /\ lastFinalityCheckpoint' = LastBlock(finalized).timestamp
               /\ reportedFinalNumber' = LastBlock(finalized).number
               /\ unfinalizedBlocks' = SelectSeq(unfinalizedBlocks, notFinal)
    /\ newHeadNumber' = 0
    /\ UNCHANGED <<canonical, storeBlocks, shallowReorgsEmitted, fatal>>

\* Ponder.registerServiceDependencies: realtimeSyncService.on("shallowReorg", ...)
ShallowReorgListener_ZeroTimestamp(commonAncestorTimestamp) == handleReorg(0)

ShallowReorgListener(commonAncestorTimestamp) == handleReorg(commonAncestorTimestamp)

DeliverShallowReorg ==
    /\ shallowReorgsEmitted # <<>>
    /\ ShallowReorgListener(Head(shallowReorgsEmitted))
    /\ shallowReorgsEmitted' = Tail(shallowReorgsEmitted)
    /\ UNCHANGED <<canonical, unfinalizedBlocks, storeBlocks, newHeadNumber, stepOps,
                   lastFinalityCheckpoint, reportedFinalNumber, fatal>>

\* setup(): seed unfinalizedBlocks with the latest block
InitRealtime ==
    /\ canonical = <<"a">>
    /\ unfinalizedBlocks = <<EthGetBlockByNumber(1)>>
    /\ storeBlocks = {}
    /\ newHeadNumber = 0
    /\ stepOps = <<>>
    /\ shallowReorgsEmitted = <<>>
    /\ lastFinalityCheckpoint = 0
    /\ reportedFinalNumber = 0
    /\ fatal = FALSE


----------------------------------------------------------------------------
(* Historical sync of one log filter on one network, over the event store's *)
(* cached-range index. A block holds at most one matching log, so logs,     *)
(* blocks and transactions are identified by the block number.              *)

\* the network whose historical sync is still under way
SyncingNetwork == MathMin(ChainIds)

\* filter.startBlock
FilterStartBlock == 1

HistoricalBlockTimestamp(n) == 10 * n

BlockRange(from, to) == [from |-> from, to |-> to]

CachedRange(startBlock, endBlock, endBlockTimestamp) ==
    [startBlock |-> startBlock, endBlock |-> endBlock, endBlockTimestamp |-> endBlockTimestamp]

CoveredBlocks(ranges) == UNION {r.startBlock..r.endBlock : r \in ranges}

\* the maximal runs of consecutive numbers in a set of block numbers
Runs(blocks) ==
    {BlockRange(a, b) : a \in blocks, b \in blocks} \cap
    {r \in [from : blocks, to : blocks] :
        /\ r.from <= r.to
        /\ \A n \in r.from..r.to : n \in blocks
        /\ (r.from - 1) \notin blocks
        /\ (r.to + 1) \notin blocks}

\* mergeLogFilterCachedRanges(filterKey, logFilterStartBlockNumber): overlapping
\* and adjacent rows are coalesced; returns the endBlockTimestamp of the
\* coalesced range that starts at or before the start block, or 0
mergeLogFilterCachedRanges_KeepsRows(ranges, logFilterStartBlockNumber) ==
    LET leading == {r \in ranges : r.startBlock <= logFilterStartBlockNumber}
    IN [ranges |-> ranges,
        startingRangeEndTimestamp |->
            IF leading = {} THEN 0
            ELSE MathMax({r.endBlockTimestamp : r \in leading})]

mergeLogFilterCachedRanges(ranges, logFilterStartBlockNumber) ==
    LET merged == {CachedRange(run.from, run.to,
                               (CHOOSE r \in ranges : r.endBlock = run.to).endBlockTimestamp)
                      : run \in Runs(CoveredBlocks(ranges))}
        leading == {r \in merged : r.startBlock <= logFilterStartBlockNumber}
    IN [ranges |-> merged,
        startingRangeEndTimestamp |->
            IF leading = {} THEN 0
            ELSE (CHOOSE r \in leading : TRUE).endBlockTimestamp]

\* log-fetch tasks of at most maxBlockRange for the range from..to
RECURSIVE PartitionRange(_, _, _)
PartitionRange(from, to, maxBlockRange) ==
    IF from > to THEN {}
    ELSE LET end == Min2(from + maxBlockRange, to)
         IN {BlockRange(from, end)} \cup PartitionRange(end + 1, to, maxBlockRange)

\* eth_getLogs for the filter: the block numbers of the matching logs, or the
\* provider's rejection of the span
EthGetLogs(from, to) ==
    IF to - from + 1 > providerLimit
    THEN [error |-> "block range too large", logs |-> {}]
    ELSE [error |-> "", logs |-> {n \in logBlocks : from <= n /\ n <= to}]

\* a rejected range, split in half
SplitRange(from, to) ==
    LET mid == from + ((to - from) \div 2)
    IN <<BlockRange(from, mid), BlockRange(mid + 1, to)>>

\* what the last rejected LogTask did: the task, the tasks queued for it, and
\* the effective maxBlockRange and the stored logs before and after it
NoSplit ==
    [task |-> BlockRange(0, 0), subtasks |-> <<>>,
     maxBlockRangeBefore |-> 0, maxBlockRangeAfter |-> 0,
     logsBefore |-> {}, logsAfter |-> {}]

\* setup(): merge the cached ranges, subtract them from the required range and
\* queue the log-fetch tasks
HistoricalSetup ==
    /\ ~running
    /\ LET merge == mergeLogFilterCachedRanges(cachedRanges, FilterStartBlock)
           required == FilterStartBlock..MaxBlock
           uncached == Runs(required \ CoveredBlocks(merge.ranges))
       IN /\ cachedRanges' = merge.ranges
          /\ startingRangeEndTimestamp' = merge.startingRangeEndTimestamp
          /\ historicalCheckpoint' =
                IF merge.startingRangeEndTimestamp > 0
                THEN merge.startingRangeEndTimestamp
                ELSE historicalCheckpoint
          /\ logTasks' = UNION {PartitionRange(r.from, r.to, filterMaxBlockRange) : r \in uncached}
    /\ running' = TRUE
    /\ effectiveMaxBlockRange' = filterMaxBlockRange
    /\ UNCHANGED <<logBlocks, providerLimit, filterMaxBlockRange, restarts, historicalLogs,
                   historicalBlocks, blockTasks, rangeCommitTasks, lastSplit,
                   syncCompleteEmitted, syncCompletePending>>

\* LogTask [from, to]
LogTaskWorker(task) ==
    /\ running
    /\ task \in logTasks
    /\ LET response == EthGetLogs(task.from, task.to)
           subtasks == SplitRange(task.from, task.to)
       IN IF response.error # ""
          THEN /\ logTasks' = (logTasks \ {task}) \cup {subtasks[1], subtasks[2]}
               /\ effectiveMaxBlockRange' = effectiveMaxBlockRange \div 2
               /\ UNCHANGED <<historicalLogs, blockTasks, rangeCommitTasks>>
               /\ lastSplit' = [task |-> task, subtasks |-> subtasks,
                                maxBlockRangeBefore |-> effectiveMaxBlockRange,
                                maxBlockRangeAfter |-> effectiveMaxBlockRange',
                                logsBefore |-> historicalLogs,
                                logsAfter |-> historicalLogs']
          ELSE /\ logTasks' = logTasks \ {task}
               /\ historicalLogs' = historicalLogs \cup response.logs
               /\ blockTasks' = blockTasks \cup
                     {[blockNumber |-> n, range |-> task] : n \in response.logs}
               /\ rangeCommitTasks' = rangeCommitTasks \cup {task}
               /\ UNCHANGED <<effectiveMaxBlockRange, lastSplit>>
    /\ UNCHANGED <<logBlocks, providerLimit, filterMaxBlockRange, running, restarts,
                   historicalBlocks, cachedRanges, startingRangeEndTimestamp,
                   historicalCheckpoint, syncCompleteEmitted, syncCompletePending>>

\* insertHistoricalBlock(chainId, block, transactions, {filterKey, blockNumberToCacheFrom}):
\* the block and a CachedRange from blockNumberToCacheFrom to block.number, atomically
insertHistoricalBlock(blockNumber, blockNumberToCacheFrom) ==
    /\ historicalBlocks' = historicalBlocks \cup {blockNumber}
    /\ cachedRanges' = cachedRanges \cup
          {CachedRange(blockNumberToCacheFrom, blockNumber, HistoricalBlockTimestamp(blockNumber))}

\* BlockTask(blockHash): blockNumberToCacheFrom is the from of the enclosing range
BlockTaskWorker(task) ==
    /\ running
    /\ task \in blockTasks
    /\ insertHistoricalBlock(task.blockNumber, task.range.from)
    /\ blockTasks' = blockTasks \ {task}
    /\ UNCHANGED <<logBlocks, providerLimit, filterMaxBlockRange, running, restarts,
                   historicalLogs, logTasks, rangeCommitTasks, effectiveMaxBlockRange,
                   lastSplit, startingRangeEndTimestamp, historicalCheckpoint,
                   syncCompleteEmitted, syncCompletePending>>

\* RangeCommitTask: runs after all block tasks of its range; the checkpoint is
\* the max block timestamp written so far
RangeCommitTaskWorker(range) ==
    /\ running
    /\ range \in rangeCommitTasks
    /\ \A t \in blockTasks : t.range # range
    /\ rangeCommitTasks' = rangeCommitTasks \ {range}
    /\ historicalCheckpoint' =
          MathMax({historicalCheckpoint} \cup
                  {HistoricalBlockTimestamp(n) : n \in historicalBlocks})
    /\ UNCHANGED <<logBlocks, providerLimit, filterMaxBlockRange, running, restarts,
                   historicalLogs, historicalBlocks, cachedRanges, logTasks, blockTasks,
                   effectiveMaxBlockRange, lastSplit, startingRangeEndTimestamp,
                   syncCompleteEmitted, syncCompletePending>>

\* when all task queues are empty, emit syncComplete
EmitSyncComplete ==
    /\ running
    /\ ~syncCompleteEmitted
    /\ logTasks = {} /\ blockTasks = {} /\ rangeCommitTasks = {}
    /\ syncCompleteEmitted' = TRUE
    /\ syncCompletePending' = TRUE
    /\ UNCHANGED <<logBlocks, providerLimit, filterMaxBlockRange, running, restarts,
                   historicalLogs, historicalBlocks, cachedRanges, logTasks, blockTasks,
                   rangeCommitTasks, effectiveMaxBlockRange, lastSplit,
                   startingRangeEndTimestamp, historicalCheckpoint>>

\* Ponder.registerServiceDependencies: historicalSyncService.on("syncComplete", ...)
SyncCompleteListener(chainId) == handleHistoricalSyncComplete(chainId)

DeliverSyncComplete ==
    /\ syncCompletePending
    /\ SyncCompleteListener(SyncingNetwork)
    /\ syncCompletePending' = FALSE
    /\ UNCHANGED <<logBlocks, providerLimit, filterMaxBlockRange, running, restarts,
                   historicalLogs, historicalBlocks, cachedRanges, logTasks, blockTasks,
                   rangeCommitTasks, effectiveMaxBlockRange, lastSplit,
                   startingRangeEndTimestamp, historicalCheckpoint, syncCompleteEmitted>>

\* the process stops: the store stays, everything in memory is lost
ProcessStops ==
    /\ running
    /\ restarts < MaxRestarts
    /\ restarts' = restarts + 1
    /\ running' = FALSE
    /\ logTasks' = {} /\ blockTasks' = {} /\ rangeCommitTasks' = {}
    /\ lastSplit' = NoSplit
    /\ historicalCheckpoint' = 0
    /\ syncCompleteEmitted' = FALSE
    /\ syncCompletePending' = FALSE
    /\ networkCheckpoints' = [c \in ChainIds |-> InitialNetworkCheckpoint]
    /\ historicalSyncCompletedAt' = Undefined
    /\ UNCHANGED <<checkpoint, finalityCheckpoint, newCheckpointEvents,
                   newFinalityCheckpointEvents, reorgEvents, listeners, pendingEmits>>
    /\ UNCHANGED <<logBlocks, providerLimit, filterMaxBlockRange, historicalLogs,
                   historicalBlocks, cachedRanges, effectiveMaxBlockRange,
                   startingRangeEndTimestamp>>

HistoricalStoreEmpty ==
    /\ historicalLogs = {}
    /\ historicalBlocks = {}
    /\ cachedRanges = {}

HistoricalNotStarted ==
    /\ running = FALSE
    /\ restarts = 0
    /\ logTasks = {} /\ blockTasks = {} /\ rangeCommitTasks = {}
    /\ lastSplit = NoSplit
    /\ startingRangeEndTimestamp = 0
    /\ historicalCheckpoint = 0
    /\ syncCompleteEmitted = FALSE
    /\ syncCompletePending = FALSE

InitHistoricalIdle ==
    /\ logBlocks = {}
    /\ providerLimit = MaxBlock
    /\ filterMaxBlockRange = MaxBlock
    /\ effectiveMaxBlockRange = MaxBlock
    /\ HistoricalStoreEmpty
    /\ HistoricalNotStarted

----------------------------------------------------------------------------
(* The event store's realtime data: the blocks, transactions and logs that  *)
(* realtime sync ingests for every network and deletes on a reorg, next to  *)
(* the cached ranges of historical sync.                                    *)

MaxStoreHeight == 2

NoDelete == [chainId |-> 0, fromBlockNumber |-> 0]

\* the block of a network at the height Len(h) whose ancestry took the forks h
StoreBlock(chainId, h) ==
    [chainId |-> chainId, hash |-> <<chainId, h>>, number |-> Len(h)]

StoreTransactions(chainId, h) ==
    {[chainId |-> chainId, hash |-> <<chainId, h, "tx">>,
      blockHash |-> <<chainId, h>>, blockNumber |-> Len(h)]}

StoreLogs(chainId, h) ==
    {[chainId |-> chainId, id |-> <<chainId, h, 0>>,
      blockHash |-> <<chainId, h>>, blockNumber |-> Len(h)]}

StoreCachedRange(chainId, endBlock) ==
    [chainId |-> chainId, filterKey |-> "filter", startBlock |-> 0,
     endBlock |-> endBlock, endBlockTimestamp |-> 10 * endBlock]

EmptyStore == [blocks |-> {}, transactions |-> {}, logs |-> {}, cachedRanges |-> {}]

\* insert the rows, replacing the rows that hold the same key
UpsertByHash(rows, new) ==
    {r \in rows : \A n \in new : n.hash # r.hash} \cup new

UpsertById(rows, new) ==
    {r \in rows : \A n \in new : n.id # r.id} \cup new

insertRealtimeBlockRows(store, chainId, block, transactions, logs) ==
    [store EXCEPT !.blocks = UpsertByHash(@, {block}),
                  !.transactions = UpsertByHash(@, transactions),
                  !.logs = UpsertById(@, logs)]

deleteRealtimeDataRows_Above(store, chainId, fromBlockNumber) ==
    [store EXCEPT
        !.blocks = {b \in @ : ~(b.chainId = chainId /\ b.number > fromBlockNumber)},
        !.transactions = {t \in @ : ~(t.chainId = chainId /\ t.blockNumber > fromBlockNumber)},
        !.logs = {l \in @ : ~(l.chainId = chainId /\ l.blockNumber > fromBlockNumber)}]

deleteRealtimeDataRows(store, chainId, fromBlockNumber) ==
    [store EXCEPT
        !.blocks = {b \in @ : ~(b.chainId = chainId /\ b.number >= fromBlockNumber)},
        !.transactions = {t \in @ : ~(t.chainId = chainId /\ t.blockNumber >= fromBlockNumber)},
        !.logs = {l \in @ : ~(l.chainId = chainId /\ l.blockNumber >= fromBlockNumber)}]

\* realtime sync ingests the next block of a network, whichever fork it is on
InsertRealtimeBlock(chainId, fork) ==
    /\ Len(ingested[chainId]) < MaxStoreHeight
    /\ LET h == Append(ingested[chainId], fork)
       IN  /\ eventStore' = insertRealtimeBlockRows(eventStore, chainId,
                                StoreBlock(chainId, h), StoreTransactions(chainId, h),
                                StoreLogs(chainId, h))
           /\ ingested' = [ingested EXCEPT ![chainId] = h]
    /\ UNCHANGED lastDelete

\* a reorg of a network from the given height: realtime sync deletes the
\* network's data from there and ingests the new blocks afterwards
DeleteRealtimeData(chainId, fromBlockNumber) ==
    /\ eventStore' = deleteRealtimeDataRows(eventStore, chainId, fromBlockNumber)
    /\ ingested' = [ingested EXCEPT
                       ![chainId] = SubSeq(@, 1, MathMin({Len(@), fromBlockNumber - 1}))]
    /\ lastDelete' = [chainId |-> chainId, fromBlockNumber |-> fromBlockNumber]

InitStoreIdle ==
    /\ eventStore = EmptyStore
    /\ ingested = [c \in ChainIds |-> <<>>]
    /\ lastDelete = NoDelete

----------------------------------------------------------------------------
(* The derived store and the handler pipeline's writes to it. Rows are      *)
(* versioned: {entityName, id, data, validFrom, validTo}, one entity type.  *)
(* A page of events is handled inside one transaction; every handler makes  *)
(* one call on the entity (create, update, upsert or delete) or throws.     *)

MaxDerivedTimestamp == 2

Infinity == MaxDerivedTimestamp + 1

EntityIds == {"0xA", "0xB"}

EntityData == {100, 150}

NoEntity == 0

EntityMethods == {"create", "update", "upsert", "delete"}

\* what the handler of an event does
HandlerCalls ==
    [method : {"create", "update", "upsert"}, id : EntityIds, data : EntityData]
      \cup [method : {"delete"}, id : EntityIds, data : {NoEntity}]
      \cup [method : {"throw"}, id : {"0xA"}, data : {NoEntity}]

LiveRows(table, id) == {r \in table : r.id = id /\ r.validTo = Infinity}

NewRow(id, data, t) ==
    [entityName |-> "Account", id |-> id, data |-> data, validFrom |-> t,
     validTo |-> Infinity]

\* the timestamp a superseded version is closed with
ClosedAt(t) == t

\* write a version of the entity at timestamp t: a live row written at t is
\* replaced, an older live row is closed
WriteVersion(table, id, data, t) ==
    {IF r.id = id /\ r.validTo = Infinity THEN [r EXCEPT !.validTo = ClosedAt(t)] ELSE r :
        r \in {x \in table : ~(x.id = id /\ x.validTo = Infinity /\ x.validFrom = t)}}
      \cup {NewRow(id, data, t)}

\* remove the entity at timestamp t
CloseVersion(table, id, t) ==
    {IF r.id = id /\ r.validTo = Infinity THEN [r EXCEPT !.validTo = ClosedAt(t)] ELSE r :
        r \in {x \in table : ~(x.id = id /\ x.validTo = Infinity /\ x.validFrom = t)}}

\* the entity methods with an upsert that inserts without looking for a live row
EntityCall_UpsertInserts(table, call, t) ==
    LET exists == LiveRows(table, call.id) # {}
    IN  CASE call.method = "create" ->
               IF exists THEN [table |-> table, threw |-> TRUE]
               ELSE [table |-> WriteVersion(table, call.id, call.data, t), threw |-> FALSE]
          [] call.method = "update" ->
               IF ~exists THEN [table |-> table, threw |-> TRUE]
               ELSE [table |-> WriteVersion(table, call.id, call.data, t), threw |-> FALSE]
          [] call.method = "upsert" ->
               [table |-> table \cup {NewRow(call.id, call.data, t)}, threw |-> FALSE]
          [] call.method = "delete" ->
               [table |-> CloseVersion(table, call.id, t), threw |-> FALSE]
          [] OTHER -> [table |-> table, threw |-> TRUE]

\* one handler call at timestamp t: the table after it, and whether it threw.
\* create inserts a new entity, update changes one that exists, upsert
\* updates the entity if one exists or creates it, delete removes it if found
EntityCall(table, call, t) ==
    LET exists == LiveRows(table, call.id) # {}
    IN  CASE call.method = "create" ->
               IF exists THEN [table |-> table, threw |-> TRUE]
               ELSE [table |-> WriteVersion(table, call.id, call.data, t), threw |-> FALSE]
          [] call.method = "update" ->
               IF ~exists THEN [table |-> table, threw |-> TRUE]
               ELSE [table |-> WriteVersion(table, call.id, call.data, t), threw |-> FALSE]
          [] call.method = "upsert" ->
               [table |-> WriteVersion(table, call.id, call.data, t), threw |-> FALSE]
          [] call.method = "delete" ->
               [table |-> CloseVersion(table, call.id, t), threw |-> FALSE]
          [] OTHER -> [table |-> table, threw |-> TRUE]

RECURSIVE HandlePage(_, _)
\* the handlers of a page's events, in page order, up to the first that throws
HandlePage(table, page) ==
    IF page = <<>> THEN [table |-> table, threw |-> FALSE]
    ELSE LET first == EntityCall(table, Head(page).call, Head(page).timestamp)
         IN  IF first.threw THEN first ELSE HandlePage(first.table, Tail(page))

\* rollback of the derived store to timestamp t
RevertRows(table, t) ==
    {IF r.validTo > t THEN [r EXCEPT !.validTo = Infinity] ELSE r :
        r \in {x \in table : x.validFrom <= t}}

\* the entities and their data, as the handlers of a page leave them
RECURSIVE EntitiesAfter(_, _)
EntitiesAfter(entities, page) ==
    IF page = <<>> THEN entities
    ELSE EntitiesAfter([entities EXCEPT ![Head(page).call.id] = Head(page).call.data],
                       Tail(page))

EventsUpTo(page, t) == SelectSeq(page, LAMBDA e : e.timestamp <= t)

\* the pages of one or two events past the watermark, in timestamp order
DerivedPages(watermark) ==
    LET Later == (watermark + 1)..MaxDerivedTimestamp
        Events == [timestamp : Later, call : HandlerCalls]
    IN  {<<e>> : e \in Events}
          \cup {p \in Events \X Events : p[2].timestamp >= p[1].timestamp}

\* the handlers of the next page run in a transaction that is committed at
\* toTimestamp = pageEndsAtTimestamp, or rolled back when a handler throws
DerivedRunHandlers(page) ==
    LET result == HandlePage(entityRows, page)
    IN  IF result.threw
        THEN /\ hasUserError' = TRUE
             /\ lastRun' = "failed"
             /\ revertedRows' = {}
             /\ UNCHANGED <<entityRows, toTimestamp, liveAt, reorgTarget>>
        ELSE /\ entityRows' = result.table
             /\ toTimestamp' = page[Len(page)].timestamp
             /\ liveAt' = [t \in 0..MaxDerivedTimestamp |->
                             IF t <= toTimestamp THEN liveAt[t]
                             ELSE EntitiesAfter(liveAt[toTimestamp], EventsUpTo(page, t))]
             /\ lastRun' = "committed"
             /\ revertedRows' = {}
             /\ UNCHANGED <<hasUserError, reorgTarget>>

DerivedProcessPage_IgnoresError(page) == DerivedRunHandlers(page)

\* processEvents: returns at once while a user error is set
DerivedProcessPage(page) ==
    IF hasUserError
    THEN /\ lastRun' = "skipped"
         /\ revertedRows' = {}
         /\ UNCHANGED <<entityRows, toTimestamp, liveAt, hasUserError, reorgTarget>>
    ELSE DerivedRunHandlers(page)

\* handleReorg of the pipeline: revert the derived store, then
\* toTimestamp <- commonAncestorTimestamp
DerivedHandleReorg(commonAncestorTimestamp) ==
    /\ entityRows' = RevertRows(entityRows, commonAncestorTimestamp)
    /\ revertedRows' = {r \in entityRows : r.validFrom > commonAncestorTimestamp}
    /\ toTimestamp' = commonAncestorTimestamp
    /\ reorgTarget' = commonAncestorTimestamp
    /\ liveAt' = [t \in 0..MaxDerivedTimestamp |->
                    liveAt[MathMin({t, commonAncestorTimestamp, toTimestamp})]]
    /\ lastRun' = "reverted"
    /\ UNCHANGED hasUserError

\* Ponder.ts: the reorg listener that does not call handleReorg
DerivedListenerReorg_SkipsHandleReorg(commonAncestorTimestamp) ==
    /\ reorgTarget' = commonAncestorTimestamp
    /\ lastRun' = "reverted"
    /\ revertedRows' = {}
    /\ UNCHANGED <<entityRows, toTimestamp, liveAt, hasUserError>>

\* Ponder.ts: eventAggregatorService.on("reorg", ...):
\* await handleReorg({commonAncestorTimestamp}); the processEvents call that
\* follows handles the next pages
DerivedListenerReorg(commonAncestorTimestamp) ==
    DerivedHandleReorg(commonAncestorTimestamp)

\* reset of the pipeline: reverts the derived store to empty, sets
\* toTimestamp = 0 and clears the user error
DerivedReset ==
    /\ entityRows' = {}
    /\ toTimestamp' = 0
    /\ liveAt' = [t \in 0..MaxDerivedTimestamp |-> [id \in EntityIds |-> NoEntity]]
    /\ hasUserError' = FALSE
    /\ lastRun' = "reset"
    /\ revertedRows' = {}
    /\ UNCHANGED reorgTarget

\* Ponder.ts: buildService.on("newSchema", ...) and on("newHandlers", ...):
\* await reset(...); the processEvents call that follows handles the next pages
DerivedListenerReload == DerivedReset

InitDerivedIdle ==
    /\ entityRows = {}
    /\ liveAt = [t \in 0..MaxDerivedTimestamp |-> [id \in EntityIds |-> NoEntity]]
    /\ hasUserError = FALSE
    /\ lastRun = "none"
    /\ revertedRows = {}

----------------------------------------------------------------------------
(* The application (Ponder.ts): construction, setup, start and kill, the    *)
(* listeners that registerServiceDependencies installs for the chosen mode, *)
(* and the server's healthy flag. ChainIds are the configured networks that *)
(* have log filters, one pair of sync services each.                        *)

AppModes == {"Standalone", "Indexer", "Watcher"}

\* the configurations: options.mode, the networks that have neither rpcUrl
\* nor indexerUrl, whether a contract names a network that is not
\* configured, and whether config.nitro sets up a payment service
AppConfigs ==
    [mode : AppModes, missingUrl : SUBSET ChainIds,
     unknownContractNetwork : BOOLEAN, paymentService : BOOLEAN]

checkAppMode(config, appMode) == config.mode = appMode

Call(service, method, chainId) ==
    [service |-> service, method |-> method, chainId |-> chainId]

RECURSIVE Flatten(_)
Flatten(seqs) == IF seqs = <<>> THEN <<>> ELSE Head(seqs) \o Flatten(Tail(seqs))

\* the calls f makes for every network, in the order of networkSyncServices
ForEachNetwork(chainIds, f(_)) == Flatten([c \in 1..Cardinality(chainIds) |-> f(c)])

\* buildContracts: a contract whose network is not configured throws
ConstructorThrows(config) == config.unknownContractNetwork

\* setup(): the check of the networks' URLs
SetupError_Never(config) == FALSE

SetupError(config) ==
    /\ checkAppMode(config, "Standalone") \/ checkAppMode(config, "Indexer")
    /\ config.missingUrl # {}

\* setup(): the calls it makes on the services, in order
SetupCalls(config) ==
    <<Call("app", "registerServiceDependencies", 0)>>
      \o (IF checkAppMode(config, "Standalone") \/ checkAppMode(config, "Indexer")
          THEN IF SetupError(config) THEN <<>>
               ELSE (IF checkAppMode(config, "Indexer")
                     THEN <<Call("indexingServerService", "start", 0)>> ELSE <<>>)
                      \o <<Call("eventStore", "migrateUp", 0)>>
          ELSE <<>>)
      \o (IF SetupError(config) THEN <<>>
          ELSE (IF config.paymentService
                THEN <<Call("paymentService", "init", 0),
                       Call("paymentService", "setupPaymentChannels", 0)>>
                ELSE <<>>)
                 \o (IF checkAppMode(config, "Standalone") \/ checkAppMode(config, "Watcher")
                     THEN (IF checkAppMode(config, "Watcher")
                           THEN <<Call("eventAggregatorService", "subscribeToSyncEvents", 0)>>
                           ELSE <<>>)
                            \o <<Call("serverService", "start", 0),
                                 Call("codegenService", "generateAppFile", 0),
                                 Call("buildService", "buildSchema", 0),
                                 Call("buildService", "buildHandlers", 0)>>
                     ELSE <<>>))

\* start() that starts realtime sync with or without a payment service
StartSyncCalls_RealtimeAtOnce(config) ==
    IF checkAppMode(config, "Standalone") \/ checkAppMode(config, "Indexer")
    THEN ForEachNetwork(ChainIds,
            LAMBDA c : <<Call("realtimeSyncService", "setup", c),
                         Call("historicalSyncService", "setup", c),
                         Call("historicalSyncService", "start", c),
                         Call("realtimeSyncService", "start", c)>>)
    ELSE <<>>

\* start(), after setup: the sync services of every network are set up and
\* started; realtime sync waits for syncComplete when payments are set up
StartSyncCalls(config) ==
    IF checkAppMode(config, "Standalone") \/ checkAppMode(config, "Indexer")
    THEN ForEachNetwork(ChainIds,
            LAMBDA c : <<Call("realtimeSyncService", "setup", c),
                         Call("historicalSyncService", "setup", c),
                         Call("historicalSyncService", "start", c)>>
                         \o (IF ~config.paymentService
                             THEN <<Call("realtimeSyncService", "start", c)>> ELSE <<>>))
    ELSE <<>>

Called(calls, call) == \E i \in 1..Len(calls) : calls[i] = call

NoSyncEvent == [kind |-> "none", chainId |-> 0, to |-> "none"]

SyncEventKinds ==
    {"historicalCheckpoint", "syncComplete", "realtimeCheckpoint", "finalityCheckpoint",
     "shallowReorg"}

\* the service of a network that emits the kind of event
EmitterOf(kind) ==
    IF kind \in {"historicalCheckpoint", "syncComplete"}
    THEN "historicalSyncService" ELSE "realtimeSyncService"

\* registerServiceDependencies: where a sync service listener hands its event
SyncEventTarget_Aggregator(config) == "eventAggregatorService"

SyncEventTarget(config) ==
    IF checkAppMode(config, "Indexer")
    THEN "indexingServerService" ELSE "eventAggregatorService"

\* registerServiceDependencies: the sync service listeners are registered
SyncListenersRegistered(config) ==
    checkAppMode(config, "Standalone") \/ checkAppMode(config, "Indexer")

\* registerServiceDependencies: the build, aggregator and handler service
\* listeners are registered
PipelineListenersRegistered(config) ==
    checkAppMode(config, "Standalone") \/ checkAppMode(config, "Watcher")

\* new Ponder({options, config})
Construct ==
    /\ appPhase = "new"
    /\ appPhase' = IF ConstructorThrows(appConfig) THEN "constructionFailed"
                   ELSE "constructed"
    /\ UNCHANGED <<appConfig, serviceCalls, completed, lastSyncEvent, aggregatorEmitted,
                   pipelineCalls, isHistoricalIndexingComplete, lastEventsProcessed>>

\* start(): setup, then either kill on a setup error or the start of the
\* sync services
Start ==
    /\ appPhase = "constructed"
    /\ IF SetupError(appConfig)
       THEN /\ serviceCalls' = serviceCalls \o SetupCalls(appConfig)
            /\ appPhase' = "kill"
       ELSE /\ serviceCalls' = serviceCalls \o SetupCalls(appConfig)
                                 \o StartSyncCalls(appConfig)
            /\ appPhase' = "started"
    /\ UNCHANGED <<appConfig, completed, lastSyncEvent, aggregatorEmitted, pipelineCalls,
                   isHistoricalIndexingComplete, lastEventsProcessed>>

\* the process-wide shutdown signal calls kill()
ShutdownSignal ==
    /\ appPhase = "started"
    /\ appPhase' = "kill"
    /\ UNCHANGED <<appConfig, serviceCalls, completed, lastSyncEvent, aggregatorEmitted,
                   pipelineCalls, isHistoricalIndexingComplete, lastEventsProcessed>>

\* kill(): eventAggregatorService.kill(), then realtimeSyncService.kill() is
\* called for every network, each awaited inside its own async callback
KillAggregatorAndRealtime ==
    /\ appPhase = "kill"
    /\ serviceCalls' = serviceCalls
          \o <<Call("eventAggregatorService", "kill", 0)>>
          \o ForEachNetwork(ChainIds, LAMBDA c : <<Call("realtimeSyncService", "kill", c)>>)
    /\ appPhase' = "killSync"
    /\ UNCHANGED <<appConfig, completed, lastSyncEvent, aggregatorEmitted, pipelineCalls,
                   isHistoricalIndexingComplete, lastEventsProcessed>>

\* kill(): a network's callback resumes with historicalSyncService.kill()
KillHistorical(chainId) ==
    /\ appPhase = "killSync"
    /\ ~Called(serviceCalls, Call("historicalSyncService", "kill", chainId))
    /\ serviceCalls' = Append(serviceCalls, Call("historicalSyncService", "kill", chainId))
    /\ UNCHANGED <<appConfig, appPhase, completed, lastSyncEvent, aggregatorEmitted,
                   pipelineCalls, isHistoricalIndexingComplete, lastEventsProcessed>>

\* kill(), after Promise.all: buildService, uiService, eventHandlerService,
\* serverService, userStore.teardown(), telemetry
KillRest ==
    /\ appPhase = "killSync"
    /\ \A c \in ChainIds : Called(serviceCalls, Call("historicalSyncService", "kill", c))
    /\ serviceCalls' = serviceCalls
          \o <<Call("buildService", "kill", 0), Call("uiService", "kill", 0),
               Call("eventHandlerService", "kill", 0), Call("serverService", "kill", 0),
               Call("userStore", "teardown", 0), Call("telemetry", "kill", 0)>>
    /\ appPhase' = "killed"
    /\ UNCHANGED <<appConfig, completed, lastSyncEvent, aggregatorEmitted, pipelineCalls,
                   isHistoricalIndexingComplete, lastEventsProcessed>>

\* a listener that registerServiceDependencies put on a sync service, for
\* an event of the given kind emitted by the network's started service
SyncEventListener(kind, chainId, advances) ==
    /\ appPhase = "started"
    /\ SyncListenersRegistered(appConfig)
    /\ Called(serviceCalls, Call(EmitterOf(kind), "start", chainId))
    /\ kind = "syncComplete" => chainId \notin completed
    /\ lastSyncEvent' = [kind |-> kind, chainId |-> chainId, to |-> SyncEventTarget(appConfig)]
    /\ aggregatorEmitted' =
          IF SyncEventTarget(appConfig) # "eventAggregatorService" THEN aggregatorEmitted
          ELSE IF kind = "shallowReorg" THEN aggregatorEmitted \cup {"reorg"}
          ELSE IF kind # "finalityCheckpoint" /\ advances
               THEN aggregatorEmitted \cup {"newCheckpoint"}
          ELSE aggregatorEmitted
    /\ completed' = IF kind = "syncComplete" THEN completed \cup {chainId} ELSE completed
    /\ serviceCalls' =
          IF /\ kind = "syncComplete"
             /\ ~checkAppMode(appConfig, "Watcher")
             /\ appConfig.paymentService
          THEN Append(serviceCalls, Call("realtimeSyncService", "start", chainId))
          ELSE serviceCalls
    /\ UNCHANGED <<appConfig, appPhase, pipelineCalls, isHistoricalIndexingComplete,
                   lastEventsProcessed>>

\* the remote aggregator re-emits what its subscriptions deliver
SubscriptionEvent(name) ==
    /\ appPhase = "started"
    /\ checkAppMode(appConfig, "Watcher")
    /\ aggregatorEmitted' = aggregatorEmitted \cup {name}
    /\ UNCHANGED <<appConfig, appPhase, serviceCalls, completed, lastSyncEvent,
                   pipelineCalls, isHistoricalIndexingComplete, lastEventsProcessed>>

\* eventAggregatorService.on("newCheckpoint", ...) and on("reorg", ...)
AggregatorEventListener(name) ==
    /\ appPhase = "started"
    /\ PipelineListenersRegistered(appConfig)
    /\ name \in aggregatorEmitted
    /\ aggregatorEmitted' = aggregatorEmitted \ {name}
    /\ pipelineCalls' = pipelineCalls \cup
          (IF name = "reorg" THEN {"handleReorg", "processEvents"} ELSE {"processEvents"})
    /\ UNCHANGED <<appConfig, appPhase, serviceCalls, completed, lastSyncEvent,
                   isHistoricalIndexingComplete, lastEventsProcessed>>

\* buildService.on("newSchema", ...) and on("newHandlers", ...)
BuildEventListener ==
    /\ appPhase = "started"
    /\ PipelineListenersRegistered(appConfig)
    /\ pipelineCalls' = pipelineCalls \cup {"reset", "processEvents"}
    /\ UNCHANGED <<appConfig, appPhase, serviceCalls, completed, lastSyncEvent,
                   aggregatorEmitted, isHistoricalIndexingComplete, lastEventsProcessed>>

\* JavaScript truthiness of a number that may be undefined
Truthy(n) == n # Undefined /\ n # 0

\* ServerService.setIsHistoricalIndexingComplete
setIsHistoricalIndexingComplete == isHistoricalIndexingComplete' = TRUE

\* eventHandlerService.on("eventsProcessed", ...)
EventsProcessedListener(processedTo) ==
    /\ lastEventsProcessed' = processedTo
    /\ IF isHistoricalIndexingComplete
       THEN UNCHANGED isHistoricalIndexingComplete
       ELSE IF Truthy(historicalSyncCompletedAt) /\ processedTo >= historicalSyncCompletedAt
            THEN setIsHistoricalIndexingComplete
            ELSE UNCHANGED isHistoricalIndexingComplete
    /\ UNCHANGED <<appConfig, appPhase, serviceCalls, completed, lastSyncEvent,
                   aggregatorEmitted, pipelineCalls>>

StandaloneConfig ==
    [mode |-> "Standalone", missingUrl |-> {}, unknownContractNetwork |-> FALSE,
     paymentService |-> FALSE]

AppNotStarted ==
    /\ appPhase = "new"
    /\ serviceCalls = <<>>
    /\ completed = {}
    /\ lastSyncEvent = NoSyncEvent
    /\ aggregatorEmitted = {}
    /\ pipelineCalls = {}
    /\ isHistoricalIndexingComplete = FALSE
    /\ lastEventsProcessed = Undefined

InitAppIdle == appConfig = StandaloneConfig /\ AppNotStarted

----------------------------------------------------------------------------
(* The paid transport: PaidRPCProvider over the PaymentService.  A request  *)
(* for a paid method sends a payment on the network's payment channel and   *)
(* carries the voucher in a header of the HTTP request.                     *)

MaxPayments == 2

RpcMethods == {"eth_getLogs", "eth_getBlockByNumber", "eth_chainId"}

RpcParams == {"0x1", "0x2"}

RpcUrl == "network.rpcUrl"

PAYMENT_HEADER_KEY == "PAYMENT_HEADER_KEY"

PaymentChannel == "paymentChannel"

\* networkPayments.paymentChannelId is undefined
NoPaymentChannel == "undefined"

PaymentAmount == "networkPayments.amount"

\* headers is undefined: the HTTP request carries Content-Type only
NoHeaders == <<>>

\* what the HTTP endpoint does with a request: answers with a result, answers
\* with a JSON-RPC error, answers with a status that is not ok, or fetch throws
\* a TimeoutError or another error
HttpResponses == {"result", "error", "notOk", "timeout", "failure"}

\* PaymentsManager.sendPayment resolves with a voucher or rejects
SendPaymentOutcomes == {"voucher", "rejects"}

NoRpcRequest == [method |-> "none", params |-> "none", response |-> "none", kind |-> "none"]

\* sendPayment rejected: there is no voucher
NoVoucher == [vhash |-> <<>>, vsig |-> <<>>]

\* the voucher of the n-th payment on the channel
Voucher(n) == [vhash |-> <<"vhash", n>>, vsig |-> <<"vsig", n>>]

\* `vhash:${voucher.vhash},vsig:${voucher.vsig}`
getPaymentHeader(voucher) == <<"vhash:", voucher.vhash, ",vsig:", voucher.vsig>>

\* PaymentService.payNetwork: asserts the payment channel, then sends the payment
payNetwork(sendPayment) ==
    IF paymentChannelId = NoPaymentChannel
    THEN [threw |-> "AssertionError", effects |-> <<>>]
    ELSE LET payment == [op |-> "sendPayment", channel |-> paymentChannelId,
                         amount |-> PaymentAmount, voucher |-> Voucher(paymentsSent + 1)]
         IN  IF sendPayment = "voucher"
             THEN [threw |-> "none", effects |-> <<payment>>]
             ELSE [threw |-> "PaymentError",
                   effects |-> <<[payment EXCEPT !.voucher = NoVoucher]>>]

RequestHeaders_None(payment) == NoHeaders

\* the headers of the HTTP request, given what payNetwork returned (or no payment)
RequestHeaders(payment) ==
    IF payment.effects = <<>>
    THEN NoHeaders
    ELSE <<<<PAYMENT_HEADER_KEY, getPaymentHeader(payment.effects[1].voucher)>>>>

\* PaidRPCProvider.rpcRequest and the error check after it: what request
\* returns or throws for a response of the endpoint
RpcRequestOutcome(response) ==
    CASE response = "result" -> "result"
      [] response = "error" -> "RpcRequestError"
      [] response = "notOk" -> "HttpRequestError"
      [] response = "timeout" -> "TimeoutError"
      [] OTHER -> "HttpRequestError"

PaysFor_Nothing(method) == FALSE

\* this.paidRPCMethods.includes(method)
PaysFor(method) == method \in paidRPCMethods

\* PaidRPCProvider.request
PaidRequest(method, params, sendPayment, response) ==
    LET noPayment == [threw |-> "none", effects |-> <<>>]
        payment == IF PaysFor(method) THEN payNetwork(sendPayment) ELSE noPayment
        sent == Len(SelectSeq(payment.effects, LAMBDA e : e.voucher # NoVoucher))
        fetch == [op |-> "fetch", url |-> RpcUrl,
                  body |-> [method |-> method, params |-> params],
                  headers |-> RequestHeaders(payment)]
    IN  /\ PaysFor(method) /\ paymentChannelId # NoPaymentChannel => paymentsSent < MaxPayments
        /\ paymentsSent' = paymentsSent + sent
        /\ IF payment.threw # "none"
           THEN /\ rpcEffects' = payment.effects
                /\ rpcOutcome' = [method |-> method, params |-> params,
                                  response |-> "none", kind |-> payment.threw]
           ELSE /\ rpcEffects' = payment.effects \o <<fetch>>
                /\ rpcOutcome' = [method |-> method, params |-> params,
                                  response |-> response,
                                  kind |-> RpcRequestOutcome(response)]
        /\ UNCHANGED <<paidRPCMethods, paymentChannelId>>

\* PaymentService.setupPaymentChannel: the payment channel is found or created
setupPaymentChannel ==
    /\ paymentChannelId = NoPaymentChannel
    /\ paymentChannelId' = PaymentChannel
    /\ UNCHANGED <<paidRPCMethods, paymentsSent, rpcEffects, rpcOutcome>>

\* the default paid methods of a network with payments
DefaultPaidRPCMethods == {"eth_getLogs", "eth_getBlockByNumber"}

RpcNotUsed ==
    /\ paymentChannelId = NoPaymentChannel
    /\ paymentsSent = 0
    /\ rpcEffects = <<>>
    /\ rpcOutcome = NoRpcRequest

InitRpcIdle == paidRPCMethods = DefaultPaidRPCMethods /\ RpcNotUsed

----------------------------------------------------------------------------
(* The remote-indexer transport: IndexerGQLProvider translates JSON-RPC     *)
(* requests into GraphQL queries against a peer indexer.  The source holds  *)
(* three definitions of the class.                                          *)

IndexerProviderDefinitions == 1..3

\* a hex quantity is the sequence of its digits, most significant first
HexQuantities == {<<0>>, <<1>>, <<1, 0>>, <<10, 1>>}

\* a field of the request that is undefined
NoValue == <<>>

RECURSIVE fromHex(_)
\* viem fromHex(hex, "number")
fromHex(hex) ==
    IF hex = <<>> THEN 0
    ELSE 16 * fromHex(SubSeq(hex, 1, Len(hex) - 1)) + hex[Len(hex)]

ProviderMethods == {"eth_getLogs", "eth_getBlockByNumber", "eth_getBlockByHash", "eth_chainId"}

FilterArgs ==
    [address : {"0xC0"}, topics : {"topics"}, blockHash : {NoValue},
     fromBlock : HexQuantities \cup {NoValue}, toBlock : HexQuantities \cup {NoValue}]

\* the block tag of eth_getBlockByNumber: "latest" or a hex quantity
BlockTags ==
    {[latest |-> TRUE, hex |-> <<>>]} \cup {[latest |-> FALSE, hex |-> h] : h \in {<<1>>, <<1, 0>>}}

ProviderParams(method) ==
    CASE method = "eth_getLogs" -> {<<filterArgs>> : filterArgs \in FilterArgs}
      [] method = "eth_getBlockByNumber" -> {<<tag, full>> : tag \in BlockTags, full \in BOOLEAN}
      [] method = "eth_getBlockByHash" -> {<<<<"0xhash">>, full>> : full \in BOOLEAN}
      [] OTHER -> {<<>>}

\* what the peer indexer answers to a query, and the fallback HTTP transport
\* to a request: data, null, or an error
ProviderResponses == {"data", "null", "error"}

NoProviderRequest == [method |-> "none", params |-> <<>>, kind |-> "none", value |-> <<>>]

Resolved(result) == [kind |-> "resolved", value |-> result]

Rejected(error) == [kind |-> "rejected", value |-> error]

Query(name, variables) == [op |-> "query", name |-> name, variables |-> variables]

\* gqlGetLogs of the first definition: toBlock is converted from the already
\* converted fromBlock (BigInt of a number is that number, of undefined throws)
gqlGetLogs_First(args, chainId, response) ==
    LET fromBlock == IF args.fromBlock = NoValue THEN NoValue ELSE fromHex(args.fromBlock)
        threw == args.toBlock # NoValue /\ args.fromBlock = NoValue
        toBlock == IF args.toBlock = NoValue THEN NoValue ELSE fromBlock
        variables == [chainId |-> chainId, address |-> args.address, topics |-> args.topics,
                      blockHash |-> args.blockHash, fromBlock |-> fromBlock,
                      toBlock |-> toBlock]
    IN  IF threw
        THEN [effects |-> <<>>, outcome |-> Rejected(<<"TypeError">>)]
        ELSE [effects |-> <<Query("getEthLogs", variables)>>,
              outcome |-> IF response = "error" THEN Rejected(<<"ApolloError">>)
                          ELSE Resolved(<<"getEthLogs", response>>)]

\* getGQLLogs / gqlGetLogs of the later definitions
getGQLLogs(args, chainId, response) ==
    LET fromBlock == IF args.fromBlock = NoValue THEN NoValue ELSE fromHex(args.fromBlock)
        toBlock == IF args.toBlock = NoValue THEN NoValue ELSE fromHex(args.toBlock)
        variables == [chainId |-> chainId, address |-> args.address, topics |-> args.topics,
                      blockHash |-> args.blockHash, fromBlock |-> fromBlock,
                      toBlock |-> toBlock]
    IN  [effects |-> <<Query("getEthLogs", variables)>>,
         outcome |-> IF response = "error" THEN Rejected(<<"ApolloError">>)
                     ELSE Resolved(<<"getEthLogs", response>>)]

\* getGQLBlock of the second definition
getGQLBlock(blockParams, chainId, useBlockHash, response) ==
    LET blockTag == blockParams[1]
        fullTransactions == blockParams[2]
        variables == [chainId |-> chainId, fullTransactions |-> fullTransactions,
                      blockHash |-> IF useBlockHash THEN blockTag ELSE NoValue,
                      blockNumber |-> IF useBlockHash \/ blockTag.latest
                                      THEN NoValue ELSE fromHex(blockTag.hex)]
    IN  [effects |-> <<Query("getEthBlock", variables)>>,
         outcome |-> CASE response = "error" -> Rejected(<<"ApolloError">>)
                       [] response = "null" -> Resolved(<<"null">>)
                       [] OTHER -> Resolved(<<"getEthBlock",
                                              IF fullTransactions THEN "transactions"
                                              ELSE "txHashes">>)]

LogNotSupported(method) == [op |-> "logger.warn", method |-> method]

\* default case of the first and the second definition: warn, then fall out
\* of the switch; the function returns undefined
NotSupported_Undefined(method, requestParams, response) ==
    [effects |-> <<LogNotSupported(method)>>, outcome |-> Resolved(<<"undefined">>)]

\* default case of the third definition: warn, then use the HTTP transport
NotSupported_HttpTransport(method, requestParams, response) ==
    [effects |-> <<LogNotSupported(method),
                   [op |-> "httpTransport.request", method |-> method,
                    params |-> requestParams]>>,
     outcome |-> IF response = "error" THEN Rejected(<<"HttpTransportError">>)
                 ELSE Resolved(<<"httpTransport", response>>)]

\* IndexerGQLProvider.indexerGQLRequest of the definition built
indexerGQLRequest(definition, method, requestParams, chainId, response) ==
    CASE definition = 1 ->
            IF method = "eth_getLogs"
            THEN gqlGetLogs_First(requestParams[1], chainId, response)
            ELSE NotSupported_Undefined(method, requestParams, response)
      [] definition = 2 ->
            CASE method = "eth_getLogs" -> getGQLLogs(requestParams[1], chainId, response)
              [] method = "eth_getBlockByNumber" ->
                    getGQLBlock(requestParams, chainId, FALSE, response)
              [] method = "eth_getBlockByHash" ->
                    getGQLBlock(requestParams, chainId, TRUE, response)
              [] OTHER -> NotSupported_Undefined(method, requestParams, response)
      [] OTHER ->
            IF method = "eth_getLogs"
            THEN getGQLLogs(requestParams[1], chainId, response)
            ELSE NotSupported_HttpTransport(method, requestParams, response)

\* IndexerGQLProvider.request: whatever indexerGQLRequest throws is wrapped
\* in an RpcRequestError
IndexerRequest(method, requestParams, chainId, response) ==
    LET done == indexerGQLRequest(indexerProvider, method, requestParams, chainId, response)
    IN  /\ providerEffects' = done.effects
        /\ providerOutcome' =
              [method |-> method, params |-> requestParams,
               kind |-> done.outcome.kind,
               value |-> IF done.outcome.kind = "rejected"
                         THEN <<"RpcRequestError">> \o done.outcome.value
                         ELSE done.outcome.value]
        /\ UNCHANGED indexerProvider

ProviderNotUsed == providerEffects = <<>> /\ providerOutcome = NoProviderRequest

InitProviderIdle == indexerProvider = 2 /\ ProviderNotUsed

----------------------------------------------------------------------------
(* buildNetwork: the defaults a network of the config resolves to           *)

NetworkChainIds ==
    {1, 3, 4, 5, 42, 11155111, 10, 420, 137, 80001, 42161, 421613, 7777777, 2, 8453, 31337}

\* a URL is the sequence of its parts; undefined is the empty sequence
NetworkRpcUrls ==
    {NoValue,
     <<"https://", "eth", ".", "llamarpc", ".", "com">>,
     <<"https://", "x", ".", "quiknode", ".", "pro", "/", "key">>,
     <<"https://", "quiknode", ".", "pro">>,
     <<"https://", "quicknode", ".", "pro">>,
     <<"https://", "quiknode", ".", "com", "/", "pro">>}

\* String.prototype.includes
Includes(string, search) ==
    \E i \in 1..(Len(string) - Len(search) + 1) :
        SubSeq(string, i, i + Len(search) - 1) = search

getDefaultMaxBlockRange_ChainFirst(network) ==
    IF network.chainId \in {1, 3, 4, 5, 42, 11155111} THEN 2000
    ELSE IF Includes(network.rpcUrl, <<"quiknode", ".", "pro">>) THEN 10000
    ELSE 50000

getDefaultMaxBlockRange(network) ==
    IF network.rpcUrl # NoValue /\ Includes(network.rpcUrl, <<"quiknode", ".", "pro">>)
    THEN 10000
    ELSE CASE network.chainId \in {1, 3, 4, 5, 42, 11155111} -> 2000
           [] network.chainId \in {10, 420} -> 50000
           [] network.chainId \in {137, 80001} -> 50000
           [] network.chainId \in {42161, 421613} -> 50000
           [] OTHER -> 50000

getFinalityBlockCount_Default(network) == 5

getFinalityBlockCount(network) ==
    CASE network.chainId \in {1, 3, 4, 5, 42, 11155111} -> 32
      [] network.chainId \in {10, 420} -> 5
      [] network.chainId \in {137, 80001} -> 100
      [] network.chainId \in {42161, 421613} -> 40
      [] network.chainId \in {7777777} -> 5
      [] OTHER -> 5

NotBuilt == [chainId |-> 0, rpcUrl |-> NoValue, defaultMaxBlockRange |-> 0,
             finalityBlockCount |-> 0, built |-> FALSE]

\* buildNetwork: the resolved Network
buildNetwork ==
    /\ resolvedNetwork' =
          [chainId |-> networkConfig.chainId,
           rpcUrl |-> networkConfig.rpcUrl,
           defaultMaxBlockRange |-> getDefaultMaxBlockRange(networkConfig),
           finalityBlockCount |-> getFinalityBlockCount(networkConfig),
           built |-> TRUE]
    /\ UNCHANGED networkConfig

InitNetworkIdle ==
    /\ networkConfig = [chainId |-> 1, rpcUrl |-> NoValue]
    /\ resolvedNetwork = NotBuilt

----------------------------------------------------------------------------
(* The getEthBlock resolver of the indexing server                          *)

\* bound of the block numbers of the chain behind the resolver
MaxResolverHeight == 2

\* the block numbers a request can name, one past the highest block
RequestedBlocks == 0..(MaxResolverHeight + 1)

\* the arguments of the query: a block is named by its hash (written as the
\* number of the block that has the hash), by its number, or not at all
EthBlockArgs ==
    {a \in [blockHash : RequestedBlocks \cup {Undefined},
            blockNumber : RequestedBlocks \cup {Undefined},
            fullTransactions : BOOLEAN] :
        a.blockHash = Undefined \/ a.blockNumber = Undefined}

\* the first parameter of an eth_getBlockBy... request: "latest", a hash, a
\* hex quantity, or a plain number
BlockTag(kind, hash, hex, number) ==
    [kind |-> kind, hash |-> hash, hex |-> hex, number |-> number]

LatestTag == BlockTag("latest", Undefined, NoValue, Undefined)

HashTag(hash) == BlockTag("hash", hash, NoValue, Undefined)

HexTag(hex) == BlockTag("hex", Undefined, hex, Undefined)

NumberTag(number) == BlockTag("number", Undefined, NoValue, number)

RECURSIVE numberToHex(_)
\* viem numberToHex
numberToHex(n) ==
    IF n < 16 THEN <<n>> ELSE numberToHex(n \div 16) \o <<n % 16>>

NullBlock == [found |-> FALSE, number |-> Undefined]

RpcBlock(number) == [found |-> TRUE, number |-> number]

StoreLookup(blockHash, blockNumber) ==
    [op |-> "eventStore.getEthBlock", method |-> "none", tag |-> LatestTag,
     blockHash |-> blockHash, blockNumber |-> blockNumber]

UpstreamRequest(method, tag) ==
    [op |-> "client.request", method |-> method, tag |-> tag,
     blockHash |-> Undefined, blockNumber |-> Undefined]

\* EventStore.getEthBlock: the stored block with the hash or the number
storeGetEthBlock(blockHash, blockNumber) ==
    LET wanted == IF blockHash # Undefined THEN blockHash ELSE blockNumber
    IN  IF wanted \in resolverStore THEN RpcBlock(wanted) ELSE NullBlock

\* the upstream node's answer to eth_getBlockByHash and eth_getBlockByNumber;
\* a node answers a plain number either as the quantity or with an error
upstreamGetBlock(tag, lenient) ==
    LET wanted == CASE tag.kind = "hash" -> tag.hash
                    [] tag.kind = "hex" -> fromHex(tag.hex)
                    [] tag.kind = "number" -> tag.number
                    [] OTHER -> upstreamHead
    IN  IF tag.kind = "number" /\ ~lenient THEN [error |-> TRUE, block |-> NullBlock]
        ELSE [error |-> FALSE,
              block |-> IF wanted <= upstreamHead THEN RpcBlock(wanted) ELSE NullBlock]

NoResolverRequest ==
    [status |-> "none", args |-> [blockHash |-> Undefined, blockNumber |-> Undefined,
                                  fullTransactions |-> FALSE],
     block |-> NullBlock]

ResolverOutcome(status, args, block) ==
    [status |-> status, args |-> args, block |-> block]

\* blockHash ?? (blockNumber && numberToHex(blockNumber)) ?? "latest"
InitialBlockTag(args) ==
    IF args.blockHash # Undefined THEN HashTag(args.blockHash)
    ELSE IF args.blockNumber = Undefined THEN LatestTag
    ELSE IF args.blockNumber = 0 THEN NumberTag(0)
    ELSE HexTag(numberToHex(args.blockNumber))

\* the resolver of the earlier indexing server: "latest" goes upstream
getEthBlock_Earlier(args, lenient) ==
    LET blockHash == args.blockHash
        blockTag == InitialBlockTag(args)
        lookup == blockTag # LatestTag
        stored == IF lookup THEN storeGetEthBlock(blockHash, args.blockNumber)
                  ELSE NullBlock
        lookups == IF lookup THEN <<StoreLookup(blockHash, args.blockNumber)>> ELSE <<>>
        method == IF blockHash # Undefined THEN "eth_getBlockByHash"
                  ELSE "eth_getBlockByNumber"
        answer == upstreamGetBlock(blockTag, lenient)
    IN  IF stored.found
        THEN /\ resolverEffects' = lookups
             /\ resolverOutcome' = ResolverOutcome("resolved", args, stored)
        ELSE /\ resolverEffects' = lookups \o <<UpstreamRequest(method, blockTag)>>
             /\ resolverOutcome' =
                   IF answer.error THEN ResolverOutcome("rejected", args, NullBlock)
                   ELSE ResolverOutcome("resolved", args, answer.block)

\* the getEthBlock resolver
getEthBlock(args, lenient) ==
    LET blockHash == args.blockHash
        useHead == InitialBlockTag(args) = LatestTag /\ realtimeHead # Undefined
        blockTag == IF useHead THEN HexTag(numberToHex(realtimeHead))
                    ELSE InitialBlockTag(args)
        blockNumber == IF useHead THEN realtimeHead ELSE args.blockNumber
        lookup == blockHash # Undefined \/ Truthy(blockNumber)
        stored == IF lookup THEN storeGetEthBlock(blockHash, blockNumber) ELSE NullBlock
        lookups == IF lookup THEN <<StoreLookup(blockHash, blockNumber)>> ELSE <<>>
        method == IF blockHash # Undefined THEN "eth_getBlockByHash"
                  ELSE "eth_getBlockByNumber"
        answer == upstreamGetBlock(blockTag, lenient)
    IN  IF stored.found
        THEN /\ resolverEffects' = lookups
             /\ resolverOutcome' = ResolverOutcome("resolved", args, stored)
        ELSE IF blockTag = LatestTag
        THEN /\ resolverEffects' = lookups
             /\ resolverOutcome' = ResolverOutcome("resolved", args, NullBlock)
        ELSE /\ resolverEffects' = lookups \o <<UpstreamRequest(method, blockTag)>>
             /\ resolverOutcome' =
                   IF answer.error THEN ResolverOutcome("rejected", args, NullBlock)
                   ELSE ResolverOutcome("resolved", args, answer.block)

\* no query is being answered: resolverEffects and resolverOutcome describe
\* the query answered against the chain and the store of the current state
ResolverIdle ==
    /\ resolverEffects' = <<>>
    /\ resolverOutcome' = NoResolverRequest

\* a query of the indexing server's getEthBlock
GetEthBlockQuery(args, lenient) ==
    /\ getEthBlock(args, lenient)
    /\ UNCHANGED <<resolverStore, upstreamHead, realtimeHead>>

\* the upstream chain grows by a block
UpstreamNewBlock ==
    /\ upstreamHead < MaxResolverHeight
    /\ upstreamHead' = upstreamHead + 1
    /\ ResolverIdle
    /\ UNCHANGED <<resolverStore, realtimeHead>>

\* the realtime sync service takes the next block of the chain as its head;
\* the block is written to the event store when it has matched logs
RealtimeNewHead(matched) ==
    LET head == IF realtimeHead = Undefined THEN 0 ELSE realtimeHead + 1
    IN  /\ head <= upstreamHead
        /\ realtimeHead' = head
        /\ resolverStore' = IF matched THEN resolverStore \cup {head} ELSE resolverStore
        /\ ResolverIdle
        /\ UNCHANGED upstreamHead

\* the historical sync service writes a block of the chain to the event store
HistoricalInsertBlock(number) ==
    /\ number <= upstreamHead
    /\ number \notin resolverStore
    /\ resolverStore' = resolverStore \cup {number}
    /\ ResolverIdle
    /\ UNCHANGED <<upstreamHead, realtimeHead>>

InitResolverIdle ==
    /\ resolverStore = {}
    /\ upstreamHead = 0
    /\ realtimeHead = Undefined
    /\ resolverEffects = <<>>
    /\ resolverOutcome = NoResolverRequest

----------------------------------------------------------------------------
(* The indexing server: IndexingServerService publishes the sync events on  *)
(* its PubSub and keeps a record per network for getNetworkHistoricalSync.  *)

\* bound of the number of events the indexing server publishes
MaxPublished == 3

\* the timestamps carried by the events handed to the indexing server
ServerTimestamps == 0..1

HISTORICAL_CHECKPOINT == "historicalCheckpoint"

SYNC_COMPLETE == "syncComplete"

REALTIME_CHECKPOINT == "realtimeCheckpoint"

FINALITY_CHECKPOINT == "finalityCheckpoint"

SHALLOW_REORG == "shallowReorg"

\* an event published on a topic of the PubSub
Published(topic, chainId, timestamp) ==
    [topic |-> topic, chainId |-> chainId, timestamp |-> timestamp]

\* pubsub.publish
publish(message) ==
    /\ Len(published) < MaxPublished
    /\ published' = Append(published, message)

\* new IndexingServerService({networks, ...}) and new Server(...)
IndexingServerConstructed(networks) ==
    /\ indexerNetworkCheckpoints =
          [c \in networks |-> [isHistoricalSyncComplete |-> FALSE,
                               historicalCheckpoint |-> 0]]
    /\ indexerIsSyncComplete = FALSE
    /\ serverIsHealthy = FALSE
    /\ published = <<>>

\* IndexingServerService.setIsSyncComplete
setIsSyncComplete ==
    /\ indexerIsSyncComplete' = TRUE
    /\ serverIsHealthy' = TRUE

\* IndexingServerService.handleNewHistoricalCheckpoint
serverHandleNewHistoricalCheckpoint(chainId, timestamp) ==
    /\ chainId \in DOMAIN indexerNetworkCheckpoints
    /\ publish(Published(HISTORICAL_CHECKPOINT, chainId, timestamp))
    /\ indexerNetworkCheckpoints' =
          [indexerNetworkCheckpoints EXCEPT ![chainId].historicalCheckpoint = timestamp]
    /\ UNCHANGED <<indexerIsSyncComplete, serverIsHealthy>>

\* the handler of the indexing server that only publishes
serverHandleHistoricalSyncComplete_PublishOnly(chainId) ==
    /\ chainId \in DOMAIN indexerNetworkCheckpoints
    /\ publish(Published(SYNC_COMPLETE, chainId, 0))
    /\ UNCHANGED <<indexerNetworkCheckpoints, indexerIsSyncComplete, serverIsHealthy>>

\* IndexingServerService.handleHistoricalSyncComplete
serverHandleHistoricalSyncComplete(chainId) ==
    /\ chainId \in DOMAIN indexerNetworkCheckpoints
    /\ publish(Published(SYNC_COMPLETE, chainId, 0))
    /\ indexerNetworkCheckpoints' =
          [indexerNetworkCheckpoints EXCEPT ![chainId].isHistoricalSyncComplete = TRUE]
    /\ IF \A c \in DOMAIN indexerNetworkCheckpoints :
             indexerNetworkCheckpoints'[c].isHistoricalSyncComplete
       THEN setIsSyncComplete
       ELSE UNCHANGED <<indexerIsSyncComplete, serverIsHealthy>>

\* IndexingServerService.handleNewRealtimeCheckpoint,
\* handleNewFinalityCheckpoint and handleReorg
serverPublishOnly(topic, chainId, timestamp) ==
    /\ chainId \in DOMAIN indexerNetworkCheckpoints
    /\ publish(Published(topic, IF topic = SHALLOW_REORG THEN 0 ELSE chainId, timestamp))
    /\ UNCHANGED <<indexerNetworkCheckpoints, indexerIsSyncComplete, serverIsHealthy>>

\* the getNetworkHistoricalSync resolver
getNetworkHistoricalSync(chainId) ==
    [checkpoint |-> indexerNetworkCheckpoints[chainId].historicalCheckpoint,
     isSyncComplete |-> indexerNetworkCheckpoints[chainId].isHistoricalSyncComplete]

\* Server /health: the status of the response, given whether the uptime
\* exceeds options.maxHealthcheckDuration
healthStatus(exceeded) ==
    IF serverIsHealthy THEN 200 ELSE IF exceeded THEN 200 ELSE 503

InitServerIdle == IndexingServerConstructed({})

----------------------------------------------------------------------------
(* The constructor of Ponder: only the networks of the config that have a   *)
(* log filter get sync services and are given to the aggregator.            *)

\* a network of the config and the Network that buildNetwork makes of it
ConfigNetwork(chainId) == [name |-> <<"network", chainId>>, chainId |-> chainId]

\* the log filter of a contract on the network
LogFilterOn(chainId) == [name |-> <<"contract", chainId>>, network |-> <<"network", chainId>>]

\* the configs: the configured networks, and those of them that a contract's
\* log filter names
PonderConfigs ==
    {config \in [networks : SUBSET ChainIds, logFilterNetworks : SUBSET ChainIds] :
        config.logFilterNetworks \subseteq config.networks}

logFilters(config) == {LogFilterOn(c) : c \in config.logFilterNetworks}

\* config.networks.map(buildNetwork), in the order of the config
BuiltNetworks(config) ==
    SelectSeq([c \in 1..NumNetworks |-> ConfigNetwork(c)],
              LAMBDA network : network.chainId \in config.networks)

\* the constructor's networks without the filter on log filters
PonderNetworks_Unfiltered(config) == BuiltNetworks(config)

\* the constructor's networks: .filter(hasLogFilters)
PonderNetworks(config) ==
    SelectSeq(BuiltNetworks(config),
              LAMBDA network :
                 \E logFilter \in logFilters(config) : logFilter.network = network.name)

\* networks.forEach(... this.networkSyncServices.push(...))
NetworkSyncServicesOf(config) ==
    [i \in 1..Len(PonderNetworks(config)) |->
        [network |-> PonderNetworks(config)[i],
         logFilters |-> {logFilter \in logFilters(config) :
                            logFilter.network = PonderNetworks(config)[i].name}]]

\* new GqlEventAggregatorService({networks, ...}) and
\* new InternalEventAggregatorService({networks, ...})
AggregatorConstructed(networks) ==
    /\ networkCheckpoints =
          [c \in {networks[i].chainId : i \in 1..Len(networks)} |-> InitialNetworkCheckpoint]
    /\ checkpoint = 0
    /\ finalityCheckpoint = 0
    /\ historicalSyncCompletedAt = Undefined
    /\ newCheckpointEvents = <<>>
    /\ newFinalityCheckpointEvents = <<>>
    /\ reorgEvents = 0
    /\ pendingEmits = <<>>

\* new Ponder({options, config}) of a standalone app
PonderConstructed(config) ==
    /\ ponderConfig = config
    /\ networkSyncServices = NetworkSyncServicesOf(config)
    /\ AggregatorConstructed(PonderNetworks(config))

\* the chainIds of the networks that have sync services
SyncedChainIds ==
    {networkSyncServices[i].network.chainId : i \in 1..Len(networkSyncServices)}

InitFilterIdle ==
    /\ ponderConfig = [networks |-> {}, logFilterNetworks |-> {}]
    /\ networkSyncServices = NetworkSyncServicesOf(ponderConfig)

InitLastIdle ==
    /\ InitProviderIdle /\ InitNetworkIdle /\ InitResolverIdle /\ InitServerIdle
    /\ InitFilterIdle

InitOtherIdle ==
    InitStoreIdle /\ InitDerivedIdle /\ InitAppIdle /\ InitRpcIdle /\ InitLastIdle

InitLaterIdle == InitVariantsIdle /\ InitRealtime /\ InitHistoricalIdle /\ InitOtherIdle

----------------------------------------------------------------------------
(* Specification of the aggregator's checkpoint: the sync services of every *)
(* network report historical and realtime checkpoints in any order.        *)

Init ==
    InitAggregator /\ listeners = FALSE /\ InitPagesIdle /\ InitPipelineIdle /\ InitLaterIdle

Next ==
    \/ \E c \in ChainIds, t \in Timestamps :
          handleNewHistoricalCheckpoint(c, t) /\ UNCHANGED <<pageVars, pipeVars, laterVars>>
    \/ \E c \in ChainIds :
          handleHistoricalSyncComplete(c) /\ UNCHANGED <<pageVars, pipeVars, laterVars>>
    \/ \E c \in ChainIds, t \in Timestamps :
          handleNewRealtimeCheckpoint(c, t) /\ UNCHANGED <<pageVars, pipeVars, laterVars>>

Spec == Init /\ [][Next]_vars

(* Specification of the aggregator's finality checkpoint. *)

NextFinality ==
    \E c \in ChainIds, t \in FinalityTimestamps :
       handleNewFinalityCheckpoint(c, t) /\ UNCHANGED <<pageVars, pipeVars, laterVars>>

SpecFinality == Init /\ [][NextFinality]_vars

(* Specification of event pagination: the store holds any set of logs, and a *)
(* consumer runs getEvents of the remote or of the in-process aggregator     *)
(* over any timestamp range and any set of registered selectors.             *)

InitPages ==
    /\ InitAggregator
    /\ listeners = FALSE
    /\ eventStoreLogs \in SUBSET LogUniverse
    /\ getEventsCall = IdleCall
    /\ rawPages = <<>>
    /\ yieldedPages = <<>>
    /\ InitPipelineIdle
    /\ InitLaterIdle

NextPages ==
    \/ \E f \in Timestamps, t \in Timestamps, sel \in (SUBSET Selectors) \ {{}} :
          GqlGetEventsStart(f, t, sel) /\ UNCHANGED <<aggVars, pipeVars, laterVars>>
    \/ GqlGetEventsIteration /\ UNCHANGED <<aggVars, pipeVars, laterVars>>
    \/ \E f \in Timestamps, t \in Timestamps, sel \in (SUBSET Selectors) \ {{}} :
          InternalGetEventsStart(f, t, sel) /\ UNCHANGED <<aggVars, pipeVars, laterVars>>
    \/ InternalGetEventsIteration /\ UNCHANGED <<aggVars, pipeVars, laterVars>>

SpecPages == InitPages /\ [][NextPages]_vars

(* Specification of the handler pipeline: the store holds the logs; every   *)
(* network but one has reported its historical checkpoint, so that the      *)
(* checkpoint follows the reports of the last one; that network's sync      *)
(* services report historical checkpoints and reorgs in any order, and the  *)
(* listeners and the pipeline take their steps in any interleaving.         *)

InitPipeline ==
    /\ networkCheckpoints =
          [c \in ChainIds |->
             IF c = SyncingNetwork THEN InitialNetworkCheckpoint
             ELSE [InitialNetworkCheckpoint EXCEPT !.historicalCheckpoint = MaxTimestamp]]
    /\ checkpoint = 0
    /\ finalityCheckpoint = 0
    /\ historicalSyncCompletedAt = Undefined
    /\ newCheckpointEvents = <<>>
    /\ newFinalityCheckpointEvents = <<>>
    /\ reorgEvents = 0
    /\ pendingEmits = <<>>
    /\ listeners = TRUE
    /\ eventStoreLogs = LogUniverse
    /\ getEventsCall = IdleCall
    /\ rawPages = <<>>
    /\ yieldedPages = <<>>
    /\ InitPipelineIdle
    /\ InitLaterIdle

NextPipeline ==
    \/ \E t \in Timestamps :
          /\ Len(pendingEmits) < MaxPending
          /\ handleNewHistoricalCheckpoint(SyncingNetwork, t)
          /\ UNCHANGED <<pageVars, pipeVars, laterVars>>
    \/ \E t \in Timestamps :
          /\ Len(pendingEmits) < MaxPending
          /\ handleReorg(t)
          /\ UNCHANGED <<pageVars, pipeVars, laterVars>>
    \/ ListenerNewCheckpoint /\ UNCHANGED <<networkCheckpoints, checkpoint,
          finalityCheckpoint, historicalSyncCompletedAt, newCheckpointEvents,
          newFinalityCheckpointEvents, reorgEvents, listeners, pageVars, laterVars>>
    \/ ListenerReorg /\ UNCHANGED <<networkCheckpoints, checkpoint,
          finalityCheckpoint, historicalSyncCompletedAt, newCheckpointEvents,
          newFinalityCheckpointEvents, reorgEvents, listeners, pageVars, laterVars>>
    \/ RollbackComplete /\ UNCHANGED <<aggVars, pageVars, laterVars>>
    \/ ListenerReorgResume /\ UNCHANGED <<aggVars, pageVars, laterVars>>
    \/ StartStream /\ UNCHANGED <<aggVars, pageVars, laterVars>>
    \/ ProcessPage /\ UNCHANGED <<aggVars, pageVars, laterVars>>
    \/ Drain /\ UNCHANGED <<aggVars, pageVars, laterVars>>

SpecPipeline == InitPipeline /\ [][NextPipeline]_vars

(* Specification of the two aggregators: the same calls, in any order, are  *)
(* made on the in-process aggregator and on the remote one.                 *)

InitVariants ==
    /\ InitAggregator
    /\ listeners = TRUE
    /\ InitPagesIdle
    /\ InitPipelineIdle
    /\ gqlDefinition \in GqlDefinitions
    /\ internalAggregator = InitialInternalAggregator
    /\ InitRealtime
    /\ InitHistoricalIdle
    /\ InitOtherIdle

NextVariants ==
    \/ \E c \in ChainIds, t \in Timestamps :
          BothHandleNewHistoricalCheckpoint(c, t) /\ UNCHANGED <<pageVars, pipeVars, realtimeVars, historicalVars, otherVars>>
    \/ \E c \in ChainIds :
          BothHandleHistoricalSyncComplete(c) /\ UNCHANGED <<pageVars, pipeVars, realtimeVars, historicalVars, otherVars>>
    \/ \E c \in ChainIds, t \in Timestamps :
          BothHandleNewRealtimeCheckpoint(c, t) /\ UNCHANGED <<pageVars, pipeVars, realtimeVars, historicalVars, otherVars>>
    \/ \E c \in ChainIds, t \in {MaxTimestamp} :
          BothHandleNewFinalityCheckpoint(c, t) /\ UNCHANGED <<pageVars, pipeVars, realtimeVars, historicalVars, otherVars>>
    \/ \E t \in {MaxTimestamp} :
          /\ Len(internalAggregator.emitted) < MaxPending
          /\ BothHandleReorg(t)
          /\ UNCHANGED <<pageVars, pipeVars, realtimeVars, historicalVars, otherVars>>

SpecVariants == InitVariants /\ [][NextVariants]_vars

(* Specification of the cross-network scenario: the aggregator is driven    *)
(* with the timestamps of a two-network run, in any order.                  *)

ScenarioHistoricalTimestamps == {50, 60, 75}

ScenarioRealtimeTimestamps == {80, 90}

NextScenario ==
    \/ \E c \in ChainIds, t \in ScenarioHistoricalTimestamps :
          handleNewHistoricalCheckpoint(c, t) /\ UNCHANGED <<pageVars, pipeVars, laterVars>>
    \/ \E c \in ChainIds :
          handleHistoricalSyncComplete(c) /\ UNCHANGED <<pageVars, pipeVars, laterVars>>
    \/ \E c \in ChainIds, t \in ScenarioRealtimeTimestamps :
          handleNewRealtimeCheckpoint(c, t) /\ UNCHANGED <<pageVars, pipeVars, laterVars>>

SpecScenario == Init /\ [][NextScenario]_vars

(* Specification of realtime sync: the node's chain grows and reorganizes   *)
(* while the ticks run, one RPC-separated step at a time.                   *)

InitRealtimeSync ==
    /\ InitAggregator
    /\ listeners = TRUE
    /\ InitPagesIdle
    /\ InitPipelineIdle
    /\ InitVariantsIdle
    /\ InitRealtime
    /\ InitHistoricalIdle
    /\ InitOtherIdle

NextRealtime ==
    \/ NewBlockMined /\ UNCHANGED <<aggVars, pageVars, pipeVars, variantVars, historicalVars, otherVars>>
    \/ ChainReorganized /\ UNCHANGED <<aggVars, pageVars, pipeVars, variantVars, historicalVars, otherVars>>
    \/ TickFetchNewHead /\ UNCHANGED <<aggVars, pageVars, pipeVars, variantVars, historicalVars, otherVars>>
    \/ TickProcessBlock /\ UNCHANGED <<aggVars, pageVars, pipeVars, variantVars, historicalVars, otherVars>>
    \/ TickFinalize /\ UNCHANGED <<aggVars, pageVars, pipeVars, variantVars, historicalVars, otherVars>>
    \/ DeliverShallowReorg /\ UNCHANGED <<pageVars, pipeVars, variantVars, historicalVars, otherVars>>

SpecRealtime == InitRealtimeSync /\ [][NextRealtime]_vars

(* Specification of historical sync: any chain content, any provider limit  *)
(* and configured maxBlockRange; the worker pool runs the queued tasks in    *)
(* any order and the process may stop at any point and be set up again.     *)

InitHistorical ==
    /\ InitAggregator
    /\ listeners = FALSE
    /\ InitPagesIdle
    /\ InitPipelineIdle
    /\ InitVariantsIdle
    /\ InitRealtime
    /\ InitOtherIdle
    /\ logBlocks \in SUBSET (FilterStartBlock..MaxBlock)
    /\ providerLimit \in 0..MaxBlock
    /\ filterMaxBlockRange \in 0..(MaxBlock - FilterStartBlock)
    /\ effectiveMaxBlockRange = filterMaxBlockRange
    /\ HistoricalStoreEmpty
    /\ HistoricalNotStarted

OnlyHistorical == UNCHANGED <<aggVars, pageVars, pipeVars, variantVars, realtimeVars, otherVars>>

NextHistorical ==
    \/ HistoricalSetup /\ OnlyHistorical
    \/ \E task \in logTasks : LogTaskWorker(task) /\ OnlyHistorical
    \/ \E task \in blockTasks : BlockTaskWorker(task) /\ OnlyHistorical
    \/ \E range \in rangeCommitTasks : RangeCommitTaskWorker(range) /\ OnlyHistorical
    \/ EmitSyncComplete /\ OnlyHistorical
    \/ DeliverSyncComplete /\ UNCHANGED <<pageVars, pipeVars, variantVars, realtimeVars, otherVars>>
    \/ ProcessStops /\ UNCHANGED <<pageVars, pipeVars, variantVars, realtimeVars, otherVars>>

SpecHistorical == InitHistorical /\ [][NextHistorical]_vars

\* the worker pool runs every queued task, setup runs when the process is
\* started, and an emitted event reaches its listener
HistoricalFairness ==
    /\ WF_vars(HistoricalSetup /\ OnlyHistorical)
    /\ WF_vars(\E task \in logTasks : LogTaskWorker(task) /\ OnlyHistorical)
    /\ WF_vars(\E task \in blockTasks : BlockTaskWorker(task) /\ OnlyHistorical)
    /\ WF_vars(\E range \in rangeCommitTasks : RangeCommitTaskWorker(range) /\ OnlyHistorical)
    /\ WF_vars(EmitSyncComplete /\ OnlyHistorical)
    /\ WF_vars(DeliverSyncComplete /\ UNCHANGED <<pageVars, pipeVars, variantVars, realtimeVars, otherVars>>)

SpecHistoricalFair == SpecHistorical /\ HistoricalFairness

----------------------------------------------------------------------------
(* Specification of the event store's realtime data: every network's blocks *)
(* are ingested, deleted from any height and ingested again, in any order.  *)

InitStore ==
    /\ InitAggregator /\ listeners = FALSE /\ InitPagesIdle /\ InitPipelineIdle
    /\ InitVariantsIdle /\ InitRealtime /\ InitHistoricalIdle
    /\ \E endBlock \in {0, MaxStoreHeight} :
          eventStore = [EmptyStore EXCEPT
                           !.cachedRanges = {StoreCachedRange(c, endBlock) : c \in ChainIds}]
    /\ ingested = [c \in ChainIds |-> <<>>]
    /\ lastDelete = NoDelete
    /\ InitDerivedIdle /\ InitAppIdle /\ InitRpcIdle /\ InitLastIdle

OnlyStore ==
    UNCHANGED <<aggVars, pageVars, pipeVars, variantVars, realtimeVars, historicalVars,
                derivedVars, appVars, rpcVars, lastVars>>

NextStore ==
    \/ \E c \in ChainIds, f \in Forks : InsertRealtimeBlock(c, f) /\ OnlyStore
    \/ \E c \in ChainIds, n \in 1..MaxStoreHeight : DeleteRealtimeData(c, n) /\ OnlyStore

SpecStore == InitStore /\ [][NextStore]_vars

----------------------------------------------------------------------------
(* Specification of the derived store under the handler pipeline: pages are *)
(* handled, reorgs roll the store back and reloads reset it, in any order.  *)

OnlyDerived ==
    UNCHANGED <<aggVars, pageVars, pipelineState, stream, handled,
                resumePending, reorgsDelivered, overtaken, variantVars, realtimeVars,
                historicalVars, storeVars, appVars, rpcVars, lastVars>>

NextDerived ==
    \/ \E page \in DerivedPages(toTimestamp) : DerivedProcessPage(page) /\ OnlyDerived
    \/ \E t \in 0..MaxDerivedTimestamp : DerivedListenerReorg(t) /\ OnlyDerived
    \/ DerivedListenerReload /\ OnlyDerived

SpecDerived == Init /\ [][NextDerived]_vars

----------------------------------------------------------------------------
(* Specification of the application: any configuration is constructed and   *)
(* started, sync services, subscriptions and the build service emit events  *)
(* while it runs, and the shutdown signal kills it.                         *)

InitApp ==
    /\ InitAggregator /\ listeners = FALSE /\ InitPagesIdle /\ InitPipelineIdle
    /\ InitVariantsIdle /\ InitRealtime /\ InitHistoricalIdle
    /\ InitStoreIdle /\ InitDerivedIdle /\ InitRpcIdle /\ InitLastIdle
    /\ appConfig \in AppConfigs
    /\ AppNotStarted

OnlyApp ==
    UNCHANGED <<aggVars, pageVars, pipeVars, variantVars, realtimeVars, historicalVars,
                storeVars, derivedVars, rpcVars, lastVars>>

NextApp ==
    \/ Construct /\ OnlyApp
    \/ Start /\ OnlyApp
    \/ ShutdownSignal /\ OnlyApp
    \/ KillAggregatorAndRealtime /\ OnlyApp
    \/ \E c \in ChainIds : KillHistorical(c) /\ OnlyApp
    \/ KillRest /\ OnlyApp
    \/ \E kind \in SyncEventKinds, c \in ChainIds, advances \in BOOLEAN :
          SyncEventListener(kind, c, advances) /\ OnlyApp
    \/ \E name \in {"newCheckpoint", "reorg"} : SubscriptionEvent(name) /\ OnlyApp
    \/ \E name \in {"newCheckpoint", "reorg"} : AggregatorEventListener(name) /\ OnlyApp
    \/ BuildEventListener /\ OnlyApp

SpecApp == InitApp /\ [][NextApp]_vars

----------------------------------------------------------------------------
(* Specification of the healthy flag: a started watcher whose aggregator    *)
(* receives the historical and realtime checkpoints of every network while  *)
(* the pipeline reports eventsProcessed up to the aggregator's checkpoint.  *)

WatcherConfig ==
    [mode |-> "Watcher", missingUrl |-> {}, unknownContractNetwork |-> FALSE,
     paymentService |-> FALSE]

InitHealthy ==
    /\ InitAggregator /\ listeners = FALSE /\ InitPagesIdle /\ InitPipelineIdle
    /\ InitVariantsIdle /\ InitRealtime /\ InitHistoricalIdle
    /\ InitStoreIdle /\ InitDerivedIdle /\ InitRpcIdle /\ InitLastIdle
    /\ appConfig = WatcherConfig
    /\ appPhase = "started"
    /\ serviceCalls = SetupCalls(WatcherConfig) \o StartSyncCalls(WatcherConfig)
    /\ completed = {}
    /\ lastSyncEvent = NoSyncEvent
    /\ aggregatorEmitted = {}
    /\ pipelineCalls = {}
    /\ isHistoricalIndexingComplete = FALSE
    /\ lastEventsProcessed = Undefined

OnlyAggregator ==
    UNCHANGED <<pageVars, pipeVars, variantVars, realtimeVars, historicalVars, storeVars,
                derivedVars, appVars, rpcVars, lastVars>>

NextHealthy ==
    \/ \E c \in ChainIds, t \in Timestamps :
          handleNewHistoricalCheckpoint(c, t) /\ OnlyAggregator
    \/ \E c \in ChainIds : handleHistoricalSyncComplete(c) /\ OnlyAggregator
    \/ \E c \in ChainIds, t \in Timestamps :
          handleNewRealtimeCheckpoint(c, t) /\ OnlyAggregator
    \/ \E t \in 0..checkpoint :
          /\ EventsProcessedListener(t)
          /\ UNCHANGED <<aggVars, pageVars, pipeVars, variantVars, realtimeVars,
                         historicalVars, storeVars, derivedVars, rpcVars, lastVars>>

SpecHealthy == InitHealthy /\ [][NextHealthy]_vars

----------------------------------------------------------------------------
(* Specification of the paid transport: any set of paid methods, the        *)
(* payment channel is set up at some point, requests are made before and    *)
(* after with every outcome of the payment and of the HTTP request.         *)

InitRpc ==
    /\ InitAggregator /\ listeners = FALSE /\ InitPagesIdle /\ InitPipelineIdle
    /\ InitVariantsIdle /\ InitRealtime /\ InitHistoricalIdle
    /\ InitStoreIdle /\ InitDerivedIdle /\ InitAppIdle /\ InitLastIdle
    /\ paidRPCMethods \in SUBSET RpcMethods
    /\ RpcNotUsed

OnlyRpc ==
    UNCHANGED <<aggVars, pageVars, pipeVars, variantVars, realtimeVars, historicalVars,
                storeVars, derivedVars, appVars, lastVars>>

NextRpc ==
    \/ setupPaymentChannel /\ OnlyRpc
    \/ \E method \in RpcMethods, params \in RpcParams,
          sendPayment \in SendPaymentOutcomes, response \in HttpResponses :
          PaidRequest(method, params, sendPayment, response) /\ OnlyRpc

SpecRpc == InitRpc /\ [][NextRpc]_vars

----------------------------------------------------------------------------
(* Specification of the remote-indexer transport: any of the definitions is *)
(* built, and requests of every method are made with every answer of the    *)
(* peer indexer or of the HTTP transport.                                   *)

InitProvider ==
    /\ InitAggregator /\ listeners = FALSE /\ InitPagesIdle /\ InitPipelineIdle
    /\ InitVariantsIdle /\ InitRealtime /\ InitHistoricalIdle
    /\ InitStoreIdle /\ InitDerivedIdle /\ InitAppIdle /\ InitRpcIdle
    /\ InitNetworkIdle /\ InitResolverIdle /\ InitServerIdle /\ InitFilterIdle
    /\ indexerProvider \in IndexerProviderDefinitions
    /\ ProviderNotUsed

OnlyProvider ==
    UNCHANGED <<aggVars, pageVars, pipeVars, variantVars, realtimeVars, historicalVars,
                storeVars, derivedVars, appVars, rpcVars, networkVars, resolverVars,
                serverVars, filterVars>>

NextProvider ==
    \/ \E method \in ProviderMethods, c \in ChainIds, response \in ProviderResponses :
          \E requestParams \in ProviderParams(method) :
             IndexerRequest(method, requestParams, c, response) /\ OnlyProvider

SpecProvider == InitProvider /\ [][NextProvider]_vars

----------------------------------------------------------------------------
(* Specification of buildNetwork: a network of the config with any chainId  *)
(* and rpcUrl is resolved.                                                   *)

InitNetworks ==
    /\ InitAggregator /\ listeners = FALSE /\ InitPagesIdle /\ InitPipelineIdle
    /\ InitVariantsIdle /\ InitRealtime /\ InitHistoricalIdle
    /\ InitStoreIdle /\ InitDerivedIdle /\ InitAppIdle /\ InitRpcIdle
    /\ InitProviderIdle /\ InitResolverIdle /\ InitServerIdle /\ InitFilterIdle
    /\ networkConfig \in [chainId : NetworkChainIds, rpcUrl : NetworkRpcUrls]
    /\ resolvedNetwork = NotBuilt

OnlyNetworks ==
    UNCHANGED <<aggVars, pageVars, pipeVars, variantVars, realtimeVars, historicalVars,
                storeVars, derivedVars, appVars, rpcVars, providerVars, resolverVars,
                serverVars, filterVars>>

NextNetworks ==
    \/ buildNetwork /\ OnlyNetworks

SpecNetworks == InitNetworks /\ [][NextNetworks]_vars

----------------------------------------------------------------------------
(* Specification of the getEthBlock resolver: the chain grows, the sync     *)
(* services store blocks and move the realtime head, and blocks are queried *)
(* by hash, by number and as the latest one.                                *)

InitResolver ==
    /\ InitAggregator /\ listeners = FALSE /\ InitPagesIdle /\ InitPipelineIdle
    /\ InitVariantsIdle /\ InitRealtime /\ InitHistoricalIdle
    /\ InitOtherIdle

OnlyResolver ==
    UNCHANGED <<aggVars, pageVars, pipeVars, variantVars, realtimeVars, historicalVars,
                storeVars, derivedVars, appVars, rpcVars, providerVars, networkVars,
                serverVars, filterVars>>

NextResolver ==
    \/ \E args \in EthBlockArgs, lenient \in BOOLEAN :
          GetEthBlockQuery(args, lenient) /\ OnlyResolver
    \/ UpstreamNewBlock /\ OnlyResolver
    \/ \E matched \in BOOLEAN : RealtimeNewHead(matched) /\ OnlyResolver
    \/ \E number \in 0..MaxResolverHeight : HistoricalInsertBlock(number) /\ OnlyResolver

SpecResolver == InitResolver /\ [][NextResolver]_vars

----------------------------------------------------------------------------
(* Specification of the indexing server: it is constructed for any          *)
(* non-empty set of networks and its handlers are called in any order for   *)
(* these networks.                                                          *)

InitServer ==
    /\ InitAggregator /\ listeners = FALSE /\ InitPagesIdle /\ InitPipelineIdle
    /\ InitVariantsIdle /\ InitRealtime /\ InitHistoricalIdle
    /\ InitStoreIdle /\ InitDerivedIdle /\ InitAppIdle /\ InitRpcIdle
    /\ InitProviderIdle /\ InitNetworkIdle /\ InitResolverIdle /\ InitFilterIdle
    /\ \E networks \in (SUBSET ChainIds) \ {{}} : IndexingServerConstructed(networks)

OnlyServer ==
    UNCHANGED <<aggVars, pageVars, pipeVars, variantVars, realtimeVars, historicalVars,
                storeVars, derivedVars, appVars, rpcVars, providerVars, networkVars,
                resolverVars, filterVars>>

NextServer ==
    \/ \E c \in ChainIds, timestamp \in ServerTimestamps :
          serverHandleNewHistoricalCheckpoint(c, timestamp) /\ OnlyServer
    \/ \E c \in ChainIds : serverHandleHistoricalSyncComplete(c) /\ OnlyServer
    \/ \E topic \in {REALTIME_CHECKPOINT, FINALITY_CHECKPOINT, SHALLOW_REORG},
          c \in ChainIds, timestamp \in ServerTimestamps :
          serverPublishOnly(topic, c, timestamp) /\ OnlyServer

SpecServer == InitServer /\ [][NextServer]_vars

----------------------------------------------------------------------------
(* Specification of the networks of a standalone app: the app is            *)
(* constructed from any config, and the sync services it has report         *)
(* checkpoints to the aggregator in any order.                              *)

InitFilter ==
    /\ listeners = FALSE /\ InitPagesIdle /\ InitPipelineIdle
    /\ InitVariantsIdle /\ InitRealtime /\ InitHistoricalIdle
    /\ InitStoreIdle /\ InitDerivedIdle /\ InitAppIdle /\ InitRpcIdle
    /\ InitProviderIdle /\ InitNetworkIdle /\ InitResolverIdle /\ InitServerIdle
    /\ \E config \in PonderConfigs : PonderConstructed(config)

\* the timestamps the sync services report: none yet, or one
FilterTimestamps == {0, 1}

NextFilter ==
    \/ \E c \in SyncedChainIds, t \in FilterTimestamps :
          handleNewHistoricalCheckpoint(c, t) /\ OnlyAggregator
    \/ \E c \in SyncedChainIds : handleHistoricalSyncComplete(c) /\ OnlyAggregator
    \/ \E c \in SyncedChainIds, t \in FilterTimestamps :
          handleNewRealtimeCheckpoint(c, t) /\ OnlyAggregator
    \/ \E c \in SyncedChainIds, t \in FilterTimestamps :
          handleNewFinalityCheckpoint(c, t) /\ OnlyAggregator

SpecFilter == InitFilter /\ [][NextFilter]_vars

----------------------------------------------------------------------------
(* Properties of the aggregator *)

StrictlyIncreasing(s) == \A i \in 1..(Len(s) - 1) : s[i] < s[i + 1]

\* C1: across any interleaving of the handle* calls, with arbitrary
\* timestamps, the global checkpoint never decreases.
C1_CheckpointNeverDecreases == [][checkpoint' >= checkpoint]_vars

\* C1 witness: a network has reported a timestamp lower than the checkpoint
\* that was reached earlier, and the checkpoint stayed.
C1_Witness ==
    /\ checkpoint > 0
    /\ \E c \in ChainIds : NetworkCheckpoint(networkCheckpoints[c]) < checkpoint

\* The minimum the claims speak of, written out from their statement: over all
\* registered networks, isHistoricalSyncComplete ? max(historical, realtime)
\* : historical.
MinimumOverNetworks(nc) ==
    MathMin({IF nc[c].isHistoricalSyncComplete
             THEN Max2(nc[c].historicalCheckpoint, nc[c].realtimeCheckpoint)
             ELSE nc[c].historicalCheckpoint : c \in ChainIds})

\* The minimum over all registered networks of the per-network finality checkpoint.
MinimumFinalityOverNetworks(nc) ==
    MathMin({nc[c].finalityCheckpoint : c \in ChainIds})

\* C2 (as stated): in every reachable state the global checkpoint equals the
\* minimum over the networks of (isHistoricalSyncComplete ? max(historical,
\* realtime) : historical).
C2_CheckpointEqualsMinimum == checkpoint = MinimumOverNetworks(networkCheckpoints)

\* C2 (amended): the global checkpoint starts at that minimum and after every
\* handler call it is the greater of its previous value and the minimum over
\* the updated per-network records; so it is never below the minimum and it
\* exceeds it only after a network reported a lower timestamp than before.
C2_CheckpointIsGreatestMinimumReached ==
    /\ checkpoint = MinimumOverNetworks(networkCheckpoints)
    /\ [][checkpoint' = Max2(checkpoint, MinimumOverNetworks(networkCheckpoints'))]_vars
    /\ [](checkpoint >= MinimumOverNetworks(networkCheckpoints))

\* C2 witness: the checkpoint was raised to a minimum taken over a network
\* whose historical sync is complete and whose realtime checkpoint is ahead of
\* its historical checkpoint, and over one whose sync is not complete.
C2_Witness ==
    /\ checkpoint > 0
    /\ checkpoint = MinimumOverNetworks(networkCheckpoints)
    /\ \E c \in ChainIds :
          /\ networkCheckpoints[c].isHistoricalSyncComplete
          /\ networkCheckpoints[c].realtimeCheckpoint > networkCheckpoints[c].historicalCheckpoint
    /\ \E c \in ChainIds :
          /\ ~networkCheckpoints[c].isHistoricalSyncComplete
          /\ networkCheckpoints[c].realtimeCheckpoint > networkCheckpoints[c].historicalCheckpoint

\* C3: newCheckpoint is emitted exactly when a recomputation yields a minimum
\* strictly greater than the current checkpoint, and carries the updated
\* checkpoint; the timestamps of successive newCheckpoint events are strictly
\* increasing and a call that leaves the checkpoint unchanged emits nothing.
C3_NewCheckpointEmittedExactlyOnIncrease ==
    /\ [][IF MinimumOverNetworks(networkCheckpoints') > checkpoint
          THEN /\ checkpoint' = MinimumOverNetworks(networkCheckpoints')
               /\ newCheckpointEvents' = Append(newCheckpointEvents, checkpoint')
          ELSE /\ checkpoint' = checkpoint
               /\ newCheckpointEvents' = newCheckpointEvents]_vars
    /\ [](StrictlyIncreasing(newCheckpointEvents))

\* C3 witness: two newCheckpoint events have been emitted and a later call
\* lowered a network below the checkpoint.
C3_Witness ==
    /\ Len(newCheckpointEvents) >= 2
    /\ MinimumOverNetworks(networkCheckpoints) < checkpoint

\* C4 (as stated): the global finalityCheckpoint is the minimum over the
\* networks of the per-network finality checkpoint.
C4_FinalityEqualsMinimum ==
    finalityCheckpoint = MinimumFinalityOverNetworks(networkCheckpoints)

\* C4 (amended): the global finalityCheckpoint is monotone non-decreasing and
\* never below the minimum over the networks of the per-network finality
\* checkpoint; handleNewFinalityCheckpoint changes it, to that minimum, and
\* emits newFinalityCheckpoint with it, exactly when the new minimum is
\* strictly greater than the current value.
C4_FinalityMonotoneAndRaisedToMinimum ==
    /\ [][IF MinimumFinalityOverNetworks(networkCheckpoints') > finalityCheckpoint
          THEN /\ finalityCheckpoint' = MinimumFinalityOverNetworks(networkCheckpoints')
               /\ newFinalityCheckpointEvents' =
                      Append(newFinalityCheckpointEvents, finalityCheckpoint')
          ELSE /\ finalityCheckpoint' = finalityCheckpoint
               /\ newFinalityCheckpointEvents' = newFinalityCheckpointEvents]_vars
    /\ [][finalityCheckpoint' >= finalityCheckpoint]_vars
    /\ [](finalityCheckpoint >= MinimumFinalityOverNetworks(networkCheckpoints))
    /\ [](StrictlyIncreasing(newFinalityCheckpointEvents))

\* C4 witness: the finality checkpoint has been raised twice and a network
\* has then reported a lower finality timestamp.
C4_Witness ==
    /\ Len(newFinalityCheckpointEvents) >= 2
    /\ MinimumFinalityOverNetworks(networkCheckpoints) < finalityCheckpoint

----------------------------------------------------------------------------
(* Pagination claims, stated on plain integer positions.                   *)

\* (timestamp, chainId, blockNumber, logIndex), compared lexicographically
PositionLess(a, b) ==
    \/ a.timestamp < b.timestamp
    \/ a.timestamp = b.timestamp /\ a.chainId < b.chainId
    \/ a.timestamp = b.timestamp /\ a.chainId = b.chainId
         /\ a.blockNumber < b.blockNumber
    \/ a.timestamp = b.timestamp /\ a.chainId = b.chainId
         /\ a.blockNumber = b.blockNumber /\ a.logIndex < b.logIndex

StrictlyOrdered(s) ==
    \A i \in 1..Len(s) : \A j \in 1..Len(s) : i < j => PositionLess(s[i], s[j])

RECURSIVE Concatenation(_)
Concatenation(pages) ==
    IF pages = <<>> THEN <<>>
    ELSE Concatenation(SubSeq(pages, 1, Len(pages) - 1)) \o pages[Len(pages)]

Elements(s) == { s[i] : i \in 1..Len(s) }

\* the stored logs a getEvents call is to deliver
MatchingLogs ==
    { e \in eventStoreLogs :
        getEventsCall.fromTimestamp <= e.timestamp
        /\ e.timestamp <= getEventsCall.toTimestamp }

\* C7: in the remote aggregator's getEvents loop every response continues
\* exactly where the previous one ended: the responses received so far hold,
\* in order and once each, the matching logs up to the last one received, with
\* none left out in between; every response but the last holds PAGE_SIZE logs;
\* when the loop stops on isLastPage every matching log in
\* [fromTimestamp, toTimestamp] has been received exactly once; and the loop
\* stops after at most n \div PAGE_SIZE + 1 queries for n matching logs, also
\* when n is an exact multiple of PAGE_SIZE.
C7_CursorPaginationResumableAndComplete ==
    getEventsCall.variant = "remote" =>
       LET received == Concatenation(rawPages)
           n == Cardinality(MatchingLogs)
       IN /\ StrictlyOrdered(received)
          /\ Elements(received) \subseteq MatchingLogs
          /\ \A e \in MatchingLogs \ Elements(received) :
                \A r \in Elements(received) : PositionLess(r, e)
          /\ \A i \in 1..(Len(rawPages) - 1) : Len(rawPages[i]) = PAGE_SIZE
          /\ getEventsCall.pc = "done" => Elements(received) = MatchingLogs
          /\ getEventsCall.pc = "running" => Len(rawPages) <= n \div PAGE_SIZE
          /\ Len(rawPages) <= n \div PAGE_SIZE + 1

\* a remote run over an exact multiple of PAGE_SIZE matching logs (two full
\* pages) that stopped on a final empty response
C7_Witness ==
    /\ getEventsCall.variant = "remote"
    /\ getEventsCall.pc = "done"
    /\ Len(rawPages) = 3
    /\ Len(rawPages[1]) = PAGE_SIZE
    /\ Len(rawPages[2]) = PAGE_SIZE
    /\ rawPages[3] = <<>>
    /\ Cardinality(MatchingLogs) = 2 * PAGE_SIZE

\* C8: the logs inside every page produced by getLogEvents are strictly
\* ordered by (timestamp, chainId, blockNumber, logIndex), and the pages of a
\* run concatenated are strictly ordered, hence without duplicates.
C8_PagesStrictlyOrdered ==
    /\ \A i \in 1..Len(rawPages) : StrictlyOrdered(rawPages[i])
    /\ StrictlyOrdered(Concatenation(rawPages))
    /\ \A i \in 1..Len(yieldedPages) :
          StrictlyOrdered([k \in 1..Len(yieldedPages[i].events) |->
                              yieldedPages[i].events[k].log])

\* the in-process aggregator has iterated two pages, the first one full and
\* the two holding logs of one timestamp and one block, apart in logIndex only
C8_Witness ==
    /\ getEventsCall.variant = "internal"
    /\ Len(rawPages) >= 2
    /\ Len(rawPages[1]) = PAGE_SIZE
    /\ rawPages[2] # <<>>
    /\ \E a \in Elements(Concatenation(rawPages)), b \in Elements(Concatenation(rawPages)) :
          /\ a.timestamp = b.timestamp
          /\ a.chainId = b.chainId
          /\ a.blockNumber = b.blockNumber
          /\ a.logIndex < b.logIndex

\* the logs of a page that can be decoded with the registered ABI items
RECURSIVE DecodableLogs(_, _)
DecodableLogs(events, bySelector) ==
    IF events = <<>> THEN <<>>
    ELSE LET rest == DecodableLogs(SubSeq(events, 1, Len(events) - 1), bySelector)
             event == events[Len(events)]
         IN IF event.selector \in bySelector /\ event.decodes
            THEN Append(rest, event)
            ELSE rest

\* C10: a decode error is never fatal: getEvents never throws, and every page
\* received from getLogEvents is yielded with all its decodable logs decoded,
\* whether it holds a log whose topic0 has no entry in bySelector or a log
\* whose data cannot be decoded.
C10_DecodeErrorNeverFatal ==
    /\ getEventsCall.pc # "thrown"
    /\ Len(yieldedPages) = Len(rawPages)
    /\ \A i \in 1..Len(yieldedPages) :
          [k \in 1..Len(yieldedPages[i].events) |-> yieldedPages[i].events[k].log]
             = DecodableLogs(rawPages[i], getEventsCall.bySelector)

----------------------------------------------------------------------------
(* Handler pipeline claims *)

\* C5: once the aggregator has emitted reorg({commonAncestorTimestamp}), the
\* pipeline invokes no handler for an event whose timestamp is past
\* commonAncestorTimestamp until it has handled that reorg, also when the reorg
\* is emitted while a processEvents run is in progress.
C5_ReorgObservedBeforeLaterEvents == ~overtaken

C9_HandlersInAscendingOrderUpToCheckpoint ==
    /\ StrictlyOrdered(handled)
    /\ \A i \in 1..Len(handled) : handled[i].timestamp <= checkpoint

\* after a rollback the pipeline has run to the checkpoint again: handlers
\* ran for events of several pages and of two timestamps
C9_Witness ==
    /\ reorgEvents > 0
    /\ pendingEmits = <<>>
    /\ reorgsDelivered = <<>>
    /\ pipelineState = "Idle"
    /\ Len(handled) > PAGE_SIZE
    /\ handled[1].timestamp < handled[Len(handled)].timestamp
    /\ handled[Len(handled)].timestamp = checkpoint

----------------------------------------------------------------------------
(* Claims on the aggregator variants and on the checkpoint rule *)

\* C11: driven by the same calls, the remote aggregator and the in-process
\* aggregator hold the same checkpoint and finalityCheckpoint and have emitted
\* the same sequence of newCheckpoint and reorg events and the same sequence
\* of newFinalityCheckpoint events.
C11_AggregatorsAgree ==
    /\ checkpoint = internalAggregator.checkpoint
    /\ finalityCheckpoint = internalAggregator.finalityCheckpoint
    /\ pendingEmits = internalAggregator.emitted
    /\ newFinalityCheckpointEvents = internalAggregator.newFinalityCheckpointEvents

\* the record of one network as the scenario states it
IsScenarioNetwork(n, h, r, complete) ==
    /\ n.historicalCheckpoint = h
    /\ n.realtimeCheckpoint = r
    /\ n.isHistoricalSyncComplete = complete

\* any network besides the scenario's two is past the scenario's timestamps
OthersAhead(nc, A, B) ==
    \A c \in ChainIds \ {A, B} :
        /\ nc[c].isHistoricalSyncComplete
        /\ nc[c].historicalCheckpoint = 75
        /\ nc[c].realtimeCheckpoint = 90

OnlyChanged(c, field) ==
    /\ \A d \in ChainIds \ {c} : networkCheckpoints'[d] = networkCheckpoints[d]
    /\ \A f \in DOMAIN networkCheckpoints[c] \ {field} :
          networkCheckpoints'[c][f] = networkCheckpoints[c][f]

\* C12: a realtime checkpoint of a network whose historical sync is not
\* complete changes neither the checkpoint nor the emitted events; and with
\* A = (historical 50, realtime 80, complete), B = (historical 60, not
\* complete) and checkpoint 60: B's historical checkpoint 75 gives checkpoint
\* 75 and emits newCheckpoint 75; B's sync completing emits nothing; B's
\* realtime checkpoint 90 then gives checkpoint 80 and emits newCheckpoint 80.
C12_RealtimeCountsOnlyAfterHistoricalSync ==
    [][LET A == 1
           B == 2
           nc == networkCheckpoints
           nc2 == networkCheckpoints'
           scenarioA == /\ IsScenarioNetwork(nc[A], 50, 80, TRUE)
                        /\ OthersAhead(nc, A, B)
       IN
       /\ \A c \in ChainIds :
             (/\ ~nc[c].isHistoricalSyncComplete
              /\ OnlyChanged(c, "realtimeCheckpoint"))
             => /\ checkpoint' = checkpoint
                /\ newCheckpointEvents' = newCheckpointEvents
       /\ (/\ scenarioA
           /\ IsScenarioNetwork(nc[B], 60, 0, FALSE)
           /\ checkpoint = 60
           /\ OnlyChanged(B, "historicalCheckpoint")
           /\ nc2[B].historicalCheckpoint = 75)
          => /\ checkpoint' = 75
             /\ newCheckpointEvents' = Append(newCheckpointEvents, 75)
       /\ (/\ scenarioA
           /\ IsScenarioNetwork(nc[B], 75, 0, FALSE)
           /\ checkpoint = 75
           /\ OnlyChanged(B, "isHistoricalSyncComplete")
           /\ nc2[B].isHistoricalSyncComplete)
          => /\ checkpoint' = 75
             /\ newCheckpointEvents' = newCheckpointEvents
       /\ (/\ scenarioA
           /\ IsScenarioNetwork(nc[B], 75, 0, TRUE)
           /\ checkpoint = 75
           /\ OnlyChanged(B, "realtimeCheckpoint")
           /\ nc2[B].realtimeCheckpoint = 90)
          => /\ checkpoint' = 80
             /\ newCheckpointEvents' = Append(newCheckpointEvents, 80)
      ]_vars

\* the scenario has run to its end: 60, 75 and 80 were emitted in this order
C12_Witness ==
    /\ IsScenarioNetwork(networkCheckpoints[1], 50, 80, TRUE)
    /\ IsScenarioNetwork(networkCheckpoints[2], 75, 90, TRUE)
    /\ checkpoint = 80
    /\ newCheckpointEvents = <<60, 75, 80>>

----------------------------------------------------------------------------
(* Claims on realtime sync *)

IsAncestorHash(h, g) == Len(h) < Len(g) /\ SubSeq(g, 1, Len(h)) = h

IndexesOf(ops, kind) == {k \in 1..Len(ops) : ops[k].op = kind}

\* the next block to process, while a tick is between its RPC fetches
BlockPending ==
    /\ ~fatal
    /\ newHeadNumber > 0
    /\ LastBlock(unfinalizedBlocks).number < newHeadNumber

NextBlock == Block(SubSeq(canonical, 1, LastBlock(unfinalizedBlocks).number + 1))

ReorgDetected == BlockPending /\ NextBlock.parentHash # LastBlock(unfinalizedBlocks).hash

\* indexes of the entries of unfinalizedBlocks that are ancestors of the next block
AncestorIndexes ==
    {i \in 1..Len(unfinalizedBlocks) : IsAncestorHash(unfinalizedBlocks[i].hash, NextBlock.hash)}

\* a step of realtime sync itself, as opposed to the node or a listener
SyncStep ==
    \/ unfinalizedBlocks' # unfinalizedBlocks
    \/ newHeadNumber' # newHeadNumber
    \/ fatal' # fatal

\* C13: when the next block's parentHash differs from the tail's hash and a
\* common ancestor a is in unfinalizedBlocks, the step drops the entries after
\* a, calls deleteRealtimeData(a.number + 1) first, emits shallowReorg with
\* a.timestamp second, and only then inserts the blocks of the new chain from
\* a to b, which are the entries appended after a and are in the store after
\* the step; the listener hands that timestamp to the aggregator's handleReorg.
C13_ShallowReorgRecoveryOrder ==
    [][/\ (ReorgDetected /\ AncestorIndexes # {} /\ SyncStep) =>
            LET i == MathMax(AncestorIndexes)
                a == unfinalizedBlocks[i]
                b == NextBlock
                new == unfinalizedBlocks'
                dropped == {unfinalizedBlocks[k] : k \in (i + 1)..Len(unfinalizedBlocks)}
                appended == {new[k] : k \in (i + 1)..Len(new)}
                inserts == IndexesOf(stepOps', "insertRealtimeBlock")
            IN /\ SubSeq(new, 1, i) = SubSeq(unfinalizedBlocks, 1, i)
               /\ dropped \cap appended = {}
               /\ LastBlock(new) = b
               /\ \A k \in (i + 1)..Len(new) :
                     new[k].number = a.number + (k - i) /\ new[k].parentHash = new[k - 1].hash
               /\ Len(stepOps') >= 2
               /\ stepOps'[1] = [op |-> "deleteRealtimeData", fromBlockNumber |-> a.number + 1]
               /\ stepOps'[2] = [op |-> "shallowReorg", commonAncestorTimestamp |-> a.timestamp]
               /\ IndexesOf(stepOps', "deleteRealtimeData") = {1}
               /\ IndexesOf(stepOps', "shallowReorg") = {2}
               /\ \A k \in inserts : k > 2
               /\ {stepOps'[k].block : k \in inserts} = appended
               /\ appended \subseteq storeBlocks'
               /\ dropped \cap storeBlocks' = {}
               /\ shallowReorgsEmitted' = Append(shallowReorgsEmitted, a.timestamp)
       /\ (shallowReorgsEmitted # <<>> /\ shallowReorgsEmitted' = Tail(shallowReorgsEmitted)) =>
            pendingEmits' = Append(pendingEmits,
                                   [name |-> "reorg", timestamp |-> Head(shallowReorgsEmitted)])
      ]_vars

\* a reorg of depth two was recovered and its signal reached the aggregator
C13_Witness ==
    /\ Len(stepOps) >= 6
    /\ stepOps[1].op = "deleteRealtimeData"
    /\ stepOps[2].op = "shallowReorg"
    /\ \E k \in 1..Len(pendingEmits) :
          pendingEmits[k] = [name |-> "reorg",
                             timestamp |-> stepOps[2].commonAncestorTimestamp]

\* C14: unfinalizedBlocks is ascending by block number and each entry's
\* parentHash is the hash of the entry before it.
C14_UnfinalizedBlocksContiguous ==
    \A k \in 2..Len(unfinalizedBlocks) :
        /\ unfinalizedBlocks[k].number > unfinalizedBlocks[k - 1].number
        /\ unfinalizedBlocks[k].parentHash = unfinalizedBlocks[k - 1].hash

\* after appends, a finality advance and then a reorg recovery
C14_Witness ==
    /\ Len(unfinalizedBlocks) >= 3
    /\ reportedFinalNumber > 0
    /\ IndexesOf(stepOps, "shallowReorg") # {}

\* C15: when the next block's parentHash differs from the tail's hash and no
\* entry of unfinalizedBlocks is its ancestor, the step raises the fatal error,
\* deletes and inserts nothing, emits no shallowReorg and appends nothing; and
\* once failed, realtime sync does nothing more.
C15_DeepReorgIsFatal ==
    [][/\ (ReorgDetected /\ AncestorIndexes = {} /\ SyncStep) =>
            /\ fatal'
            /\ storeBlocks' = storeBlocks
            /\ unfinalizedBlocks' = unfinalizedBlocks
            /\ shallowReorgsEmitted' = shallowReorgsEmitted
            /\ stepOps' = <<>>
       /\ fatal =>
            /\ fatal'
            /\ storeBlocks' = storeBlocks
            /\ unfinalizedBlocks' = unfinalizedBlocks
            /\ newHeadNumber' = newHeadNumber
            /\ stepOps' = stepOps
      ]_vars

\* a reorg below a block already reported final has failed realtime sync
C15_Witness ==
    /\ fatal
    /\ reportedFinalNumber > 0
    /\ storeBlocks # {}
    /\ ~IsAncestorHash(unfinalizedBlocks[1].hash, canonical)

\* C16: the finalityCheckpoint timestamps emitted are non-decreasing, every
\* deleteRealtimeData issued has fromBlockNumber greater than the number of
\* every block reported final, and a stored block reported final stays stored.
C16_FinalityIrreversible ==
    [][/\ lastFinalityCheckpoint' >= lastFinalityCheckpoint
       /\ reportedFinalNumber' >= reportedFinalNumber
       /\ SyncStep =>
            \A k \in IndexesOf(stepOps', "deleteRealtimeData") :
                stepOps'[k].fromBlockNumber > reportedFinalNumber
       /\ \A b \in storeBlocks : b.number <= reportedFinalNumber => b \in storeBlocks'
      ]_vars

\* a reorg was recovered, and realtime data deleted, after a finalityCheckpoint
C16_Witness ==
    /\ \E k \in IndexesOf(stepOps, "deleteRealtimeData") :
          stepOps[k].fromBlockNumber = reportedFinalNumber + 2
    /\ lastFinalityCheckpoint > 0

----------------------------------------------------------------------------
(* Claims on historical sync *)

BlocksIn(from, to) == {n \in Int : from <= n /\ n <= to} \cap (0..(MaxBlock + 1))

HistoricalQueuesEmpty == logTasks = {} /\ blockTasks = {} /\ rangeCommitTasks = {}

\* C17: whenever a CachedRange row covers blocks s..e, the store holds every
\* matching log of s..e together with the block and transactions of each.
C17_CachedRangeOnlyWhenDataComplete ==
    \A r \in cachedRanges :
        \A n \in r.startBlock..r.endBlock :
            n \in logBlocks => (n \in historicalLogs /\ n \in historicalBlocks)

C19_RangeSplitInHalf ==
    /\ SplitRange(1000000, 1050000) =
          <<[from |-> 1000000, to |-> 1025000], [from |-> 1025001, to |-> 1050000]>>
    /\ lastSplit # NoSplit =>
          LET from == lastSplit.task.from
              to == lastSplit.task.to
              mid == from + ((to - from) \div 2)
              first == lastSplit.subtasks[1]
              second == lastSplit.subtasks[2]
          IN /\ first = [from |-> from, to |-> mid]
             /\ second = [from |-> mid + 1, to |-> to]
             /\ BlocksIn(first.from, first.to) \cap BlocksIn(second.from, second.to) = {}
             /\ BlocksIn(first.from, first.to) \cup BlocksIn(second.from, second.to)
                   = BlocksIn(from, to)
             /\ lastSplit.maxBlockRangeAfter < lastSplit.maxBlockRangeBefore
             /\ lastSplit.logsAfter = lastSplit.logsBefore

\* C20: historical sync terminates: the task queues drain, syncComplete is
\* emitted and the aggregator marks the network's historical sync complete.
C20_HistoricalSyncTerminates ==
    <>(/\ running
       /\ HistoricalQueuesEmpty
       /\ syncCompleteEmitted
       /\ networkCheckpoints[SyncingNetwork].isHistoricalSyncComplete)

----------------------------------------------------------------------------
(* Properties of the event store's realtime data *)

RECURSIVE IngestAll(_, _, _)
\* the store after ingesting the first n blocks of the chain h of a network
IngestAll(store, chainId, h) ==
    IF h = <<>> THEN store
    ELSE LET below == IngestAll(store, chainId, SubSeq(h, 1, Len(h) - 1))
         IN  [below EXCEPT
                 !.blocks = @ \cup {StoreBlock(chainId, h)},
                 !.transactions = @ \cup StoreTransactions(chainId, h),
                 !.logs = @ \cup StoreLogs(chainId, h)]

RECURSIVE BaselineStore(_, _)
\* the store that holds the ingested chains and was never deleted from
BaselineStore(chains, todo) ==
    IF todo = {} THEN EmptyStore
    ELSE LET c == CHOOSE x \in todo : TRUE
         IN  IngestAll(BaselineStore(chains, todo \ {c}), c, chains[c])

RealtimeRows(store) == <<store.blocks, store.transactions, store.logs>>

\* the rows a deleteRealtimeData(chainId, n) call has to leave alone
KeptRows(store, chainId, n) ==
    <<{b \in store.blocks : b.chainId # chainId \/ b.number < n},
      {t \in store.transactions : t.chainId # chainId \/ t.blockNumber < n},
      {l \in store.logs : l.chainId # chainId \/ l.blockNumber < n},
      store.cachedRanges>>

IsDeleteStep ==
    \/ lastDelete' # lastDelete
    \/ \E c \in ChainIds : Len(ingested'[c]) < Len(ingested[c])

\* C21: deleting a network's realtime data from block N and ingesting the
\* blocks from N again leaves the blocks, transactions and logs that the
\* store would hold had nothing been deleted; the delete itself leaves the
\* data of other networks, the data below N and the cached ranges untouched.
C21_DeleteThenReingestMatchesBaseline ==
    [][ /\ RealtimeRows(eventStore') = RealtimeRows(BaselineStore(ingested', ChainIds))
        /\ IsDeleteStep =>
              KeptRows(eventStore', lastDelete'.chainId, lastDelete'.fromBlockNumber)
                = KeptRows(eventStore, lastDelete'.chainId, lastDelete'.fromBlockNumber) ]_vars

\* a network's data was deleted from a height below its head and ingested
\* again up to that height, while another network and cached ranges hold data
C21_Witness ==
    /\ lastDelete # NoDelete
    /\ Len(ingested[lastDelete.chainId]) >= lastDelete.fromBlockNumber
    /\ \E b \in eventStore.blocks :
          b.chainId = lastDelete.chainId /\ b.number < lastDelete.fromBlockNumber
    /\ \E c \in ChainIds : c # lastDelete.chainId /\ ingested[c] # <<>>
    /\ \E r \in eventStore.cachedRanges : r.endBlock >= lastDelete.fromBlockNumber

----------------------------------------------------------------------------
(* Properties of the derived store *)

\* the data of the live versions of an entity
LiveData(table, id) == {r.data : r \in {x \in table : x.id = id /\ x.validTo = Infinity}}

\* the data an entity has according to the handled events
DataOf(entities, id) == IF entities[id] = NoEntity THEN {} ELSE {entities[id]}

SameVersion(r1, r2) == r1.id = r2.id /\ r1.validFrom = r2.validFrom /\ r1.data = r2.data

\* C22: a rollback of the derived store to timestamp T deletes every row
\* with validFrom > T and re-opens every row with validTo > T; after it the
\* live rows are the entities that were live at T, and toTimestamp = T.
C22_RollbackRestoresLiveRowsAtT ==
    [][ lastRun' = "reverted" =>
          /\ \A r \in entityRows :
                IF r.validFrom > reorgTarget'
                THEN \A x \in entityRows' : ~SameVersion(x, r)
                ELSE \E x \in entityRows' :
                        /\ SameVersion(x, r)
                        /\ x.validTo = IF r.validTo > reorgTarget' THEN Infinity ELSE r.validTo
          /\ \A x \in entityRows' : \E r \in entityRows : SameVersion(x, r)
          /\ \A id \in EntityIds :
                LiveData(entityRows', id) = DataOf(liveAt[reorgTarget'], id)
          /\ toTimestamp' = reorgTarget' ]_vars

\* the scenario: balance 100 written at 1, balance 150 written at 2, reorg
\* with commonAncestorTimestamp 1: the 150 row was deleted and the 100 row
\* is live again
C22_Witness ==
    /\ lastRun = "reverted"
    /\ reorgTarget = 1
    /\ toTimestamp = 1
    /\ NewRow("0xA", 150, 2) \in revertedRows
    /\ NewRow("0xA", 100, 1) \in entityRows

\* C23: whatever creates, updates, upserts, deletes, page commits, rollbacks
\* and resets have happened, every entity that exists has exactly one live
\* row (validTo = infinity), no entity has two, and an entity that does not
\* exist has none.
C23_ExactlyOneLiveRow ==
    \A id \in EntityIds :
        /\ Cardinality({r \in entityRows : r.id = id /\ r.validTo = Infinity}) <= 1
        /\ LiveData(entityRows, id) = DataOf(liveAt[toTimestamp], id)
        /\ liveAt[toTimestamp][id] # NoEntity =>
              Cardinality({r \in entityRows : r.id = id /\ r.validTo = Infinity}) = 1

\* after a rollback one entity has a closed version and a live one, and
\* another entity has only closed versions
C23_Witness ==
    /\ lastRun = "reverted"
    /\ \E id \in EntityIds :
          /\ \E r \in entityRows : r.id = id /\ r.validTo # Infinity
          /\ \E r \in entityRows : r.id = id /\ r.validTo = Infinity
    /\ \E id \in EntityIds :
          /\ \E r \in entityRows : r.id = id
          /\ \A r \in entityRows : r.id = id => r.validTo # Infinity

\* C24: when a user handler throws, the writes of the page are rolled back,
\* toTimestamp stays at the watermark of the last committed page, the error
\* is flagged without the application being killed, and until a reset no
\* later processEvents handles an event.
C24_HandlerErrorHaltsPipeline ==
    [][ /\ lastRun' = "failed" =>
              /\ entityRows' = entityRows
              /\ toTimestamp' = toTimestamp
              /\ liveAt' = liveAt
              /\ hasUserError'
              /\ appPhase' = appPhase /\ serviceCalls' = serviceCalls
        /\ hasUserError /\ lastRun' # "reset" =>
              /\ hasUserError'
              /\ lastRun' \in {"skipped", "reverted"}
              /\ lastRun' = "skipped" =>
                    entityRows' = entityRows /\ toTimestamp' = toTimestamp ]_vars

\* after a committed page a handler threw, and a later processEvents was
\* skipped: the committed rows and the watermark are still there
C24_Witness ==
    /\ hasUserError
    /\ lastRun = "skipped"
    /\ toTimestamp > 0
    /\ entityRows # {}

----------------------------------------------------------------------------
(* Properties of the application *)

AllHistoricalSyncComplete ==
    \A c \in ChainIds : networkCheckpoints[c].isHistoricalSyncComplete

\* C25: once every network has completed its historical sync, an
\* eventsProcessed event with toTimestamp >= historicalSyncCompletedAt makes
\* the server healthy, whatever historicalSyncCompletedAt is (0 included);
\* the server is never healthy before every network has completed.
C25_HealthyOnceHistoricalEventsProcessed ==
    [][ /\ ( /\ lastEventsProcessed' # lastEventsProcessed
             /\ AllHistoricalSyncComplete
             /\ historicalSyncCompletedAt # Undefined
             /\ lastEventsProcessed' >= historicalSyncCompletedAt )
           => isHistoricalIndexingComplete'
        /\ isHistoricalIndexingComplete' => AllHistoricalSyncComplete' ]_vars

\* the position of the first call of a method of a service, 0 if none
FirstCall(service, method) ==
    LET at == {i \in 1..Len(serviceCalls) :
                  serviceCalls[i].service = service /\ serviceCalls[i].method = method}
    IN  IF at = {} THEN 0 ELSE MathMin(at)

LastCall(service, method) ==
    LET at == {i \in 1..Len(serviceCalls) :
                  serviceCalls[i].service = service /\ serviceCalls[i].method = method}
    IN  IF at = {} THEN 0 ELSE MathMax(at)

\* whatever has been stopped of the second was stopped after the first
StoppedBefore(first, second) ==
    FirstCall(second[1], second[2]) # 0 =>
        /\ LastCall(first[1], first[2]) # 0
        /\ LastCall(first[1], first[2]) < FirstCall(second[1], second[2])

\* C26: on shutdown the aggregator is stopped first, then the handler
\* pipeline, then realtime sync, then historical sync, and the derived store
\* is torn down last.
C26_ShutdownOrder ==
    /\ StoppedBefore(<<"eventAggregatorService", "kill">>, <<"eventHandlerService", "kill">>)
    /\ StoppedBefore(<<"eventHandlerService", "kill">>, <<"realtimeSyncService", "kill">>)
    /\ StoppedBefore(<<"realtimeSyncService", "kill">>, <<"historicalSyncService", "kill">>)
    /\ StoppedBefore(<<"historicalSyncService", "kill">>, <<"userStore", "teardown">>)

\* C27: in Standalone or Indexer mode with a network that has neither rpcUrl
\* nor indexerUrl, start ends in kill without the event store being
\* migrated, the indexing server being started or any sync service being
\* set up or started; a contract naming an unknown network makes
\* construction fail.
C27_ConfigErrorFatalOnStartup ==
    /\ ( /\ appConfig.mode \in {"Standalone", "Indexer"}
         /\ appConfig.missingUrl # {}
         /\ appPhase \notin {"new", "constructed", "constructionFailed"} )
       => /\ appPhase \in {"kill", "killSync", "killed"}
          /\ FirstCall("eventStore", "migrateUp") = 0
          /\ FirstCall("indexingServerService", "start") = 0
          /\ \A service \in {"historicalSyncService", "realtimeSyncService"} :
                FirstCall(service, "setup") = 0 /\ FirstCall(service, "start") = 0
    /\ appConfig.unknownContractNetwork => appPhase \in {"new", "constructionFailed"}

\* an indexer with a network without URL was started and has been killed
C27_Witness ==
    /\ appConfig.mode = "Indexer"
    /\ appConfig.missingUrl # {}
    /\ ~appConfig.unknownContractNetwork
    /\ appPhase = "killed"
    /\ FirstCall("app", "registerServiceDependencies") # 0

\* C28: in Indexer mode every sync event is handed to the indexing server,
\* none to the aggregator, and processEvents and handleReorg of the handler
\* service are never called; in Standalone mode every sync event is handed
\* to the aggregator and none to the indexing server.
C28_ModeRouting ==
    /\ appConfig.mode = "Indexer" =>
          /\ lastSyncEvent # NoSyncEvent => lastSyncEvent.to = "indexingServerService"
          /\ aggregatorEmitted = {}
          /\ pipelineCalls \cap {"processEvents", "handleReorg"} = {}
    /\ appConfig.mode = "Standalone" =>
          (lastSyncEvent # NoSyncEvent => lastSyncEvent.to = "eventAggregatorService")

\* an indexer whose realtime sync, started on syncComplete, has emitted a
\* shallowReorg
C28_Witness ==
    /\ appConfig.mode = "Indexer"
    /\ appConfig.paymentService
    /\ lastSyncEvent.kind = "shallowReorg"
    /\ lastSyncEvent.to = "indexingServerService"
    /\ completed # {}

----------------------------------------------------------------------------
(* Properties of the paid transport *)

LastRequestPaid == rpcOutcome # NoRpcRequest /\ rpcOutcome.method \in paidRPCMethods

HttpRequestsSent == SelectSeq(rpcEffects, LAMBDA e : e.op = "fetch")

VouchersObtained ==
    SelectSeq(rpcEffects, LAMBDA e : e.op = "sendPayment" /\ e.voucher # NoVoucher)

\* C29: a request for a method of the paid set obtains a voucher from the
\* payment service before the HTTP request is sent and the HTTP request carries
\* that voucher in the payment header; a request for any other method triggers
\* no payment and carries no header; in every other respect the two are the
\* same: one POST to the network's URL with the method and the params as body,
\* and the same result or error for the same response.
C29_PaidMethodsCarryVoucher ==
    rpcOutcome # NoRpcRequest =>
        LET n == Len(rpcEffects)
        IN  /\ \A i \in 1..n : rpcEffects[i].op = "fetch" =>
                  /\ i = n
                  /\ rpcEffects[i].url = RpcUrl
                  /\ rpcEffects[i].body = [method |-> rpcOutcome.method,
                                           params |-> rpcOutcome.params]
                  /\ IF LastRequestPaid
                     THEN /\ i = 2
                          /\ rpcEffects[1].op = "sendPayment"
                          /\ rpcEffects[1].channel = paymentChannelId
                          /\ rpcEffects[1].voucher = Voucher(paymentsSent)
                          /\ rpcEffects[i].headers =
                                <<<<PAYMENT_HEADER_KEY,
                                    <<"vhash:", <<"vhash", paymentsSent>>,
                                      ",vsig:", <<"vsig", paymentsSent>>>>>>>>
                     ELSE /\ i = 1
                          /\ rpcEffects[i].headers = NoHeaders
            /\ ~LastRequestPaid => n = 1 /\ rpcEffects[1].op = "fetch"
            /\ HttpRequestsSent # <<>> =>
                  rpcOutcome.kind =
                     CASE rpcOutcome.response = "result" -> "result"
                       [] rpcOutcome.response = "error" -> "RpcRequestError"
                       [] rpcOutcome.response = "timeout" -> "TimeoutError"
                       [] OTHER -> "HttpRequestError"

C29_Witness ==
    /\ LastRequestPaid
    /\ paymentsSent = 2
    /\ Len(rpcEffects) = 2
    /\ rpcEffects[2].op = "fetch"
    /\ rpcEffects[2].headers # NoHeaders
    /\ rpcOutcome.kind = "result"
    /\ paidRPCMethods # RpcMethods

\* C30: when the paid transport cannot acquire a payment for a paid method (no
\* payment channel, or sending the payment fails), the request fails with an
\* RpcRequestError and no HTTP request is sent.
C30_PaymentFailureIsRpcRequestError ==
    LastRequestPaid /\ VouchersObtained = <<>> =>
        /\ rpcOutcome.kind = "RpcRequestError"
        /\ HttpRequestsSent = <<>>

----------------------------------------------------------------------------
(* Properties of the remote-indexer transport *)

TranslatedMethods == {"eth_getLogs", "eth_getBlockByNumber", "eth_getBlockByHash"}

LastRequestUntranslated ==
    providerOutcome.kind # "none" /\ providerOutcome.method \notin TranslatedMethods

ProviderLogged == \E i \in 1..Len(providerEffects) : providerEffects[i].op = "logger.warn"

ProviderDelegated ==
    /\ \E i \in 1..Len(providerEffects) :
          /\ providerEffects[i].op = "httpTransport.request"
          /\ providerEffects[i].method = providerOutcome.method
          /\ providerEffects[i].params = providerOutcome.params
    /\ \/ providerOutcome.kind = "rejected"
       \/ providerOutcome.kind = "resolved" /\ providerOutcome.value[1] = "httpTransport"

\* C31: a request for a method that the remote-indexer transport does not
\* translate is either delegated to the fallback HTTP transport, whose result
\* it returns, or logged and rejected; it is never resolved with an empty
\* result.
C31_UnknownMethodDelegatedOrRejected ==
    LastRequestUntranslated =>
        /\ ProviderDelegated \/ (ProviderLogged /\ providerOutcome.kind = "rejected")
        /\ ~(providerOutcome.kind = "resolved" /\ providerOutcome.value = <<"undefined">>)

RECURSIVE NumericValue(_, _)
NumericValue(hex, acc) ==
    IF hex = <<>> THEN acc ELSE NumericValue(SubSeq(hex, 2, Len(hex)), 16 * acc + hex[1])

\* C35: for an eth_getLogs request with hex fromBlock and toBlock, the
\* getEthLogs query is issued with fromBlock and toBlock equal to the numeric
\* values of the request's fromBlock and toBlock, and with the request's
\* address, topics and blockHash unchanged.
C35_GetLogsPreservesBlockRange ==
    ( /\ providerOutcome.method = "eth_getLogs"
      /\ providerOutcome.params[1].fromBlock # NoValue
      /\ providerOutcome.params[1].toBlock # NoValue )
    => LET args == providerOutcome.params[1]
       IN  /\ Len(providerEffects) = 1
           /\ providerEffects[1].op = "query"
           /\ providerEffects[1].name = "getEthLogs"
           /\ providerEffects[1].variables.fromBlock = NumericValue(args.fromBlock, 0)
           /\ providerEffects[1].variables.toBlock = NumericValue(args.toBlock, 0)
           /\ providerEffects[1].variables.address = args.address
           /\ providerEffects[1].variables.topics = args.topics
           /\ providerEffects[1].variables.blockHash = args.blockHash

----------------------------------------------------------------------------
(* Properties of buildNetwork *)

MainnetFamily == {1, 3, 4, 5, 42, 11155111}

IsQuiknodeUrl(url) ==
    \E i \in 1..Len(url) :
        i + 2 <= Len(url) /\ url[i] = "quiknode" /\ url[i + 1] = "." /\ url[i + 2] = "pro"

\* C32 as stated: defaultMaxBlockRange is 2000 when chainId is one of 1, 3, 4,
\* 5, 42, 11155111, 10_000 when the rpcUrl contains quiknode.pro, and 50_000
\* otherwise.
C32_Original ==
    resolvedNetwork.built =>
        /\ resolvedNetwork.chainId \in MainnetFamily
              => resolvedNetwork.defaultMaxBlockRange = 2000
        /\ IsQuiknodeUrl(resolvedNetwork.rpcUrl)
              => resolvedNetwork.defaultMaxBlockRange = 10000
        /\ resolvedNetwork.chainId \notin MainnetFamily /\ ~IsQuiknodeUrl(resolvedNetwork.rpcUrl)
              => resolvedNetwork.defaultMaxBlockRange = 50000

\* C32, amended: defaultMaxBlockRange is 10_000 when the rpcUrl contains
\* quiknode.pro, whatever the chainId; otherwise it is 2000 when chainId is one
\* of 1, 3, 4, 5, 42, 11155111, and 50_000 for every other chainId.
C32_DefaultMaxBlockRange ==
    resolvedNetwork.built =>
        resolvedNetwork.defaultMaxBlockRange =
            IF IsQuiknodeUrl(resolvedNetwork.rpcUrl) THEN 10000
            ELSE IF resolvedNetwork.chainId \in MainnetFamily THEN 2000
            ELSE 50000

C32_Witness ==
    /\ resolvedNetwork.built
    /\ resolvedNetwork.chainId = 11155111
    /\ IsQuiknodeUrl(resolvedNetwork.rpcUrl)
    /\ resolvedNetwork.defaultMaxBlockRange = 10000

\* C33: finalityBlockCount is 32 for the Ethereum mainnet family, 5 for
\* Optimism (10, 420) and Zora (7777777), 100 for Polygon (137, 80001), 40 for
\* Arbitrum (42161, 421613), and 5 for any other chainId.
C33_FinalityBlockCount ==
    resolvedNetwork.built =>
        LET c == resolvedNetwork.chainId
        IN  resolvedNetwork.finalityBlockCount =
               IF c \in MainnetFamily THEN 32
               ELSE IF c \in {10, 420, 7777777} THEN 5
               ELSE IF c \in {137, 80001} THEN 100
               ELSE IF c \in {42161, 421613} THEN 40
               ELSE 5

C33_Witness ==
    /\ resolvedNetwork.built
    /\ resolvedNetwork.chainId = 421613
    /\ resolvedNetwork.finalityBlockCount = 40

----------------------------------------------------------------------------
(* Soundness of the watermark *)

AppliedEvents == {handled[i] : i \in 1..Len(handled)}

\* the events of the store that the pipeline has to apply: those that decode
DecodableEvents == {e \in eventStoreLogs : e.decodes /\ e.selector \in RegisteredSelectors}

\* C34: in every reachable state of the handler pipeline toTimestamp is at
\* most the aggregator's checkpoint and every event of the event store with
\* timestamp <= toTimestamp has been applied to the derived store, across page
\* commits (also when a page boundary splits events that share a timestamp) and
\* reorgs (also when commonAncestorTimestamp is greater than toTimestamp).
C34_WatermarkSound ==
    /\ toTimestamp <= checkpoint
    /\ \A e \in DecodableEvents : e.timestamp <= toTimestamp => e \in AppliedEvents

----------------------------------------------------------------------------
(* Properties of the getEthBlock resolver *)

UpstreamRequestsMade == SelectSeq(resolverEffects, LAMBDA e : e.op = "client.request")

\* C36: a getEthBlock query that names a block by hash or by number (any
\* number >= 0) first looks the block up in the event store, queries the
\* upstream node only when the store has no such block, passing the same hash
\* or the hex-encoded number, and returns null only if the upstream node has
\* no such block either
C36_StoreFirstThenUpstream ==
    LET args == resolverOutcome.args
        byHash == args.blockHash # Undefined
        wanted == IF byHash THEN args.blockHash ELSE args.blockNumber
        inStore == wanted \in resolverStore
    IN  (resolverOutcome.status # "none" /\ wanted # Undefined) =>
           /\ Len(resolverEffects) >= 1
           /\ resolverEffects[1] = StoreLookup(args.blockHash, args.blockNumber)
           /\ inStore => UpstreamRequestsMade = <<>>
           /\ ~inStore =>
                 /\ Len(UpstreamRequestsMade) = 1
                 /\ IF byHash
                    THEN UpstreamRequestsMade[1] =
                            UpstreamRequest("eth_getBlockByHash", HashTag(wanted))
                    ELSE /\ UpstreamRequestsMade[1].method = "eth_getBlockByNumber"
                         /\ UpstreamRequestsMade[1].tag.kind = "hex"
                         /\ fromHex(UpstreamRequestsMade[1].tag.hex) = wanted
           /\ resolverOutcome.status = "resolved"
           /\ resolverOutcome.block.found => resolverOutcome.block.number = wanted
           /\ ~resolverOutcome.block.found => (~inStore /\ wanted > upstreamHead)

IsLatestQuery ==
    /\ resolverOutcome.status # "none"
    /\ resolverOutcome.args.blockHash = Undefined
    /\ resolverOutcome.args.blockNumber = Undefined

\* C37: a getEthBlock query for the latest block returns the block at the
\* realtime sync service's head number when a head block is known, returns
\* null without querying the upstream node when none is known, and never
\* returns a block above the realtime head
C37_LatestIsRealtimeHead ==
    IsLatestQuery =>
       /\ resolverOutcome.status = "resolved"
       /\ realtimeHead # Undefined => resolverOutcome.block = RpcBlock(realtimeHead)
       /\ realtimeHead = Undefined =>
             (resolverOutcome.block = NullBlock /\ UpstreamRequestsMade = <<>>)
       /\ resolverOutcome.block.found => resolverOutcome.block.number <= realtimeHead

\* the latest block is queried while the upstream node is ahead of the
\* realtime head and the store does not hold the head block
C37_Witness ==
    /\ IsLatestQuery
    /\ realtimeHead # Undefined
    /\ realtimeHead < upstreamHead
    /\ realtimeHead \notin resolverStore
    /\ Len(UpstreamRequestsMade) = 1
    /\ resolverOutcome.block = RpcBlock(realtimeHead)

----------------------------------------------------------------------------
(* Properties of the start of the sync services *)

\* the position in serviceCalls of the first call of the method on the
\* network's service, 0 when it was not called
CallAt(service, method, chainId) ==
    LET at == {i \in 1..Len(serviceCalls) : serviceCalls[i] = Call(service, method, chainId)}
    IN  IF at = {} THEN 0 ELSE CHOOSE i \in at : \A j \in at : i <= j

\* C38: for every network realtimeSyncService.setup() comes before
\* historicalSyncService.setup(), which comes before
\* historicalSyncService.start(); with a payment service
\* realtimeSyncService.start() is called only after the network's syncComplete
\* and so after the start of its historical sync, without one it is the call
\* right after historicalSyncService.start()
C38_StartupOrder ==
    \A c \in ChainIds :
       /\ CallAt("historicalSyncService", "setup", c) # 0 =>
             /\ CallAt("realtimeSyncService", "setup", c) # 0
             /\ CallAt("realtimeSyncService", "setup", c)
                   < CallAt("historicalSyncService", "setup", c)
       /\ CallAt("historicalSyncService", "start", c) # 0 =>
             /\ CallAt("historicalSyncService", "setup", c) # 0
             /\ CallAt("historicalSyncService", "setup", c)
                   < CallAt("historicalSyncService", "start", c)
       /\ appConfig.paymentService =>
             (CallAt("realtimeSyncService", "start", c) # 0 =>
                 /\ c \in completed
                 /\ CallAt("historicalSyncService", "start", c) # 0
                 /\ CallAt("historicalSyncService", "start", c)
                       < CallAt("realtimeSyncService", "start", c))
       /\ ~appConfig.paymentService =>
             /\ CallAt("historicalSyncService", "start", c) # 0 =>
                   CallAt("realtimeSyncService", "start", c)
                      = CallAt("historicalSyncService", "start", c) + 1
             /\ CallAt("realtimeSyncService", "start", c) # 0 =>
                   CallAt("historicalSyncService", "start", c) # 0

\* with a payment service, one network's realtime sync was started on its
\* syncComplete while another network's historical sync is still running
C38_Witness ==
    /\ appConfig.paymentService
    /\ appPhase = "started"
    /\ \E c \in ChainIds, d \in ChainIds :
          /\ completed = {c}
          /\ CallAt("realtimeSyncService", "start", c) # 0
          /\ CallAt("historicalSyncService", "start", d) # 0
          /\ CallAt("realtimeSyncService", "start", d) = 0

----------------------------------------------------------------------------
(* Properties of the indexing server *)

\* the events published on the topic for the network, in order
PublishedFor(topic, chainId) ==
    SelectSeq(published, LAMBDA m : m.topic = topic /\ m.chainId = chainId)

\* the per-network record and the flags agree with the published events
RecordReflectsPublished ==
    /\ \A c \in DOMAIN indexerNetworkCheckpoints :
          LET checkpoints == PublishedFor(HISTORICAL_CHECKPOINT, c)
          IN  /\ getNetworkHistoricalSync(c).checkpoint =
                    IF checkpoints = <<>> THEN 0
                    ELSE checkpoints[Len(checkpoints)].timestamp
              /\ getNetworkHistoricalSync(c).isSyncComplete
                    <=> PublishedFor(SYNC_COMPLETE, c) # <<>>
    /\ indexerIsSyncComplete
          <=> \A c \in DOMAIN indexerNetworkCheckpoints :
                 PublishedFor(SYNC_COMPLETE, c) # <<>>
    /\ serverIsHealthy <=> indexerIsSyncComplete
    /\ healthStatus(FALSE) = 200 <=> indexerIsSyncComplete

\* C39: after any sequence of calls of the indexing server's handlers,
\* getNetworkHistoricalSync(chainId) returns the timestamp of the last
\* historical checkpoint published for chainId and isSyncComplete exactly if
\* syncComplete was published for chainId, the server is marked sync-complete
\* and healthy exactly if syncComplete was published for every registered
\* network, and the mark is never taken back
C39_RecordReflectsPublished ==
    /\ []RecordReflectsPublished
    /\ [][(indexerIsSyncComplete => indexerIsSyncComplete')
             /\ (serverIsHealthy => serverIsHealthy')]_vars

\* both of two registered networks have published syncComplete and one of
\* them a historical checkpoint of timestamp 1 before
C39_Witness ==
    /\ DOMAIN indexerNetworkCheckpoints = ChainIds
    /\ indexerIsSyncComplete
    /\ serverIsHealthy
    /\ \E c \in ChainIds :
          /\ Len(PublishedFor(HISTORICAL_CHECKPOINT, c)) >= 1
          /\ getNetworkHistoricalSync(c).checkpoint = 1

----------------------------------------------------------------------------
(* Properties of the networks of the app *)

\* C40: a configured network that has no log filter has no sync services and
\* is not registered in the aggregator's per-network checkpoints, so that it
\* cannot hold checkpoint or finalityCheckpoint at 0 once the registered
\* networks have reported; every network registered in the aggregator has
\* sync services that report checkpoints for its chainId
C40_FilterlessNetworkExcluded ==
    /\ \A c \in ponderConfig.networks \ ponderConfig.logFilterNetworks :
          /\ c \notin SyncedChainIds
          /\ c \notin DOMAIN networkCheckpoints
    /\ DOMAIN networkCheckpoints \subseteq SyncedChainIds
    /\ ( /\ DOMAIN networkCheckpoints # {}
         /\ \A c \in DOMAIN networkCheckpoints :
               NetworkCheckpoint(networkCheckpoints[c]) > 0 )
       => checkpoint > 0
    /\ ( /\ DOMAIN networkCheckpoints # {}
         /\ \A c \in DOMAIN networkCheckpoints :
               networkCheckpoints[c].finalityCheckpoint > 0 )
       => finalityCheckpoint > 0

\* a network without log filter is configured next to one with a log
\* filter, whose checkpoints have moved both global checkpoints off 0
C40_Witness ==
    /\ ponderConfig.networks \ ponderConfig.logFilterNetworks # {}
    /\ ponderConfig.logFilterNetworks # {}
    /\ checkpoint > 0
    /\ finalityCheckpoint > 0

====
